---- MODULE Spec2Model ----
(***************************************************************************)
(* Model of obspy/io/segy/core.py: the SEG Y format detector (_is_segy),   *)
(* the lazily unpacked trace header (LazyTraceHeaderAttribDict), the       *)
(* seismo_* helpers on the file layout (extended textual headers, trace    *)
(* offset and count, removal of the extended headers) and the writers      *)
(* _write_segy and _write_su.                                              *)
(***************************************************************************)
EXTENDS Integers, Sequences, FiniteSets, TLC

VARIABLES
    file,   \* the byte source handed to _is_segy
    det,    \* the outcome of _is_segy on it
    objs,   \* the LazyTraceHeaderAttribDict objects: each one's __dict__
    view,   \* the two names bound to such objects: the header and its copy
    hist,   \* per object: the values set on it, the buffer reads per field
    last,   \* the latest header operation and what it returned or raised
    eager,  \* the same trace header unpacked eagerly
    exth,   \* seismo_segy_read_extended_textual_headers: its file, its outcome
    layout, \* the trace offset and trace count of a file, as the helpers compute them
    surg,   \* seismo_segy_remove_extended_headers: its input, output and report
    wr,     \* _write_segy / _write_su: the stream handed in, what was raised or written
    rt,     \* a trace header read from a file and written back by _write_segy
    schema, \* the header fields the seismo_* readers unpack, statement by statement
    comp,   \* seismo_read_segy_: the traces read and the three streams returned
    thr     \* two threads on one lazy header: where each stands in its call

detVars  == <<file, det>>
lazyVars == <<objs, view, hist, last, eager>>
moreVars == <<schema, comp, thr>>
restVars == <<exth, layout, surg, wr, rt, schema, comp, thr>>
vars     == <<file, det, objs, view, hist, last, eager, exth, layout, surg, wr, rt,
              schema, comp, thr>>

(***************************************************************************)
(* struct.unpack of one signed 16-bit value.                               *)
(***************************************************************************)
Byte == 0..255

S16(u) == IF u >= 32768 THEN u - 65536 ELSE u

\* unpack that ignores the byte-order prefix of its format string
Unpack_h_NoOrder(endian, data) ==
    IF Len(data) # 2 THEN "struct.error" ELSE S16(data[1] * 256 + data[2])

\* unpack(b'>h', data)[0] / unpack(b'<h', data)[0]; struct.error on a
\* buffer that is not exactly two bytes long
Unpack_h(endian, data) ==
    IF Len(data) # 2 THEN "struct.error"
    ELSE IF endian = ">" THEN S16(data[1] * 256 + data[2])
    ELSE S16(data[2] * 256 + data[1])

\* Valid data format codes as specified in the SEGY rev1 manual.
VALID_FORMATS == {1, 2, 3, 4, 5, 8}

\* the accepted format revision numbers (0x0000, 0x0100, 0x0010, 0x0001)
VALID_REVISIONS == {0, 256, 16, 1}

(***************************************************************************)
(* The byte source.  Only the eight 2-byte fields the detector looks at    *)
(* carry modelled content; every other byte of the file is zero.           *)
(***************************************************************************)
FieldAt ==
    [number_of_data_traces      |-> 3212,
     number_of_auxiliary_traces |-> 3214,
     sample_interval            |-> 3216,
     samples_per_trace          |-> 3220,
     data_format_code           |-> 3224,
     format_number              |-> 3500,
     fixed_length               |-> 3502,
     extended_number            |-> 3504]

FieldNames == DOMAIN FieldAt

FileByte(f, k) ==
    IF \E n \in FieldNames : k \in FieldAt[n]..(FieldAt[n] + 1)
    THEN LET n == CHOOSE n \in FieldNames : k \in FieldAt[n]..(FieldAt[n] + 1)
         IN  f.fld[n][k - FieldAt[n] + 1]
    ELSE 0

Min(a, b) == IF a < b THEN a ELSE b

\* fp.read(n) at position pos: the bytes up to the end of the file
FpRead(f, pos, n) ==
    LET upto == Min(pos + n, f.len)
    IN  IF upto <= pos THEN <<>> ELSE [i \in 1..(upto - pos) |-> FileByte(f, pos + i - 1)]

(***************************************************************************)
(* _is_segy, lines 69-84: the seek/read sequence on the opened stream.     *)
(***************************************************************************)
Seek(off, whence) == [op |-> "seek", off |-> off, whence |-> whence]
Read(n, into)     == [op |-> "read", n |-> n, into |-> into]

\* a sequence that leaves out the two relative seeks over the original
\* field recording values
FpOpsNoSkip ==
    << Seek(3212, 0),
       Read(2, "number_of_data_traces"),
       Read(2, "number_of_auxiliary_traces"),
       Read(2, "sample_interval"),
       Read(2, "samples_per_trace"),
       Read(2, "data_format_code"),
       Seek(3500, 0),
       Read(2, "format_number"),
       Read(2, "fixed_length"),
       Read(2, "extended_number") >>

FpOps ==
    << Seek(3212, 0),
       Read(2, "number_of_data_traces"),
       Read(2, "number_of_auxiliary_traces"),
       Read(2, "sample_interval"),
       Seek(2, 1),
       Read(2, "samples_per_trace"),
       Seek(2, 1),
       Read(2, "data_format_code"),
       Seek(3500, 0),
       Read(2, "format_number"),
       Read(2, "fixed_length"),
       Read(2, "extended_number") >>

\* one operation on the stream s: its position, the local variables read
\* so far, and the log of the reads (position, bytes asked for, bytes
\* returned)
FpStep(f, s, o) ==
    IF o.op = "seek"
    THEN [s EXCEPT !.pos = IF o.whence = 0 THEN o.off ELSE s.pos + o.off]
    ELSE LET got == FpRead(f, s.pos, o.n)
         IN  [pos |-> s.pos + Len(got),
              out |-> [s.out EXCEPT ![o.into] = got],
              log |-> Append(s.log, [at |-> s.pos, want |-> o.n, got |-> got])]

FpOpened == [pos |-> 0, out |-> [n \in FieldNames |-> <<>>], log |-> <<>>]

\* the stream after the operations ops[i..]
RECURSIVE FpRun(_, _, _, _)
FpRun(f, ops, i, s) ==
    IF i > Len(ops) THEN s
    ELSE CHOOSE r \in {FpRun(f, ops, i + 1, t) : t \in {FpStep(f, s, ops[i])}} : TRUE

(***************************************************************************)
(* _is_segy, lines 85-100: the byte order from the data sample format code.*)
(***************************************************************************)
\* the else branch unpacking big endian a second time
SelectEndianBigOnly(code) ==
    IF Unpack_h(">", code) \in VALID_FORMATS THEN ">"
    ELSE IF Unpack_h(">", code) \in VALID_FORMATS THEN "<"
    ELSE "none"

SelectEndian(code) ==
    IF Unpack_h(">", code) \in VALID_FORMATS THEN ">"
    ELSE IF Unpack_h("<", code) \in VALID_FORMATS THEN "<"
    ELSE "none"

(***************************************************************************)
(* _is_segy, lines 101-126: the sanity checks in the selected byte order.  *)
(* "struct.error" is the exception unpack raises outside any try block.    *)
(***************************************************************************)
Short(out, names) == \E n \in names : Len(out[n]) # 2

\* the sanity check with the sample interval compared by < instead of <=
SanityFailsStrict(e, out) ==
    \/ Unpack_h(e, out["sample_interval"]) < 0
    \/ Unpack_h(e, out["samples_per_trace"]) <= 0
    \/ Unpack_h(e, out["number_of_data_traces"]) < 0
    \/ Unpack_h(e, out["number_of_auxiliary_traces"]) < 0
    \/ Unpack_h(e, out["fixed_length"]) < 0
    \/ Unpack_h(e, out["extended_number"]) < 0

SanityFails(e, out) ==
    \/ Unpack_h(e, out["sample_interval"]) <= 0
    \/ Unpack_h(e, out["samples_per_trace"]) <= 0
    \/ Unpack_h(e, out["number_of_data_traces"]) < 0
    \/ Unpack_h(e, out["number_of_auxiliary_traces"]) < 0
    \/ Unpack_h(e, out["fixed_length"]) < 0
    \/ Unpack_h(e, out["extended_number"]) < 0

CheckFields(e, out) ==
    IF Short(out, {"sample_interval", "samples_per_trace",
                   "number_of_data_traces", "number_of_auxiliary_traces"})
    THEN "struct.error"
    ELSE IF Short(out, {"format_number"}) THEN "struct.error"
    ELSE IF Unpack_h(e, out["format_number"]) \notin VALID_REVISIONS THEN "False"
    ELSE IF Short(out, {"fixed_length", "extended_number"}) THEN "struct.error"
    ELSE IF SanityFails(e, out) THEN "False"
    ELSE "True"

\* lines 85-126 on the values the reads returned
Decide(s) ==
    IF Len(s.out["data_format_code"]) # 2
    THEN [ret |-> "False", endian |-> "none", log |-> s.log]
    ELSE LET e == SelectEndian(s.out["data_format_code"])
         IN  IF e = "none"
             THEN [ret |-> "False", endian |-> "none", log |-> s.log]
             ELSE [ret |-> CheckFields(e, s.out), endian |-> e, log |-> s.log]

\* the whole function: what it returns (or raises), the byte order it
\* selected, and the reads it made
IsSegyOutcome(f) ==
    IF ~f.openable
    THEN [ret |-> "False", endian |-> "none", log |-> <<>>]
    ELSE CHOOSE r \in {Decide(s) : s \in {FpRun(f, FpOps, 1, FpOpened)}} : TRUE

(***************************************************************************)
(* The trace header table and the unpacking of one header value.           *)
(***************************************************************************)
\* [length, name, special_format, start]
TRACE_HEADER_FORMAT ==
    << [length |-> 4, name |-> "trace_sequence_number_within_line",
        special_format |-> "", start |-> 0],
       [length |-> 2, name |-> "number_of_samples_in_this_trace",
        special_format |-> "H", start |-> 114] >>

TRACE_HEADER_KEYS == [i \in DOMAIN TRACE_HEADER_FORMAT |-> TRACE_HEADER_FORMAT[i].name]

SchemaNames == {TRACE_HEADER_KEYS[i] : i \in DOMAIN TRACE_HEADER_KEYS}

\* TRACE_HEADER_KEYS.index(name)
KeyIndex(name) == CHOOSE i \in DOMAIN TRACE_HEADER_KEYS : TRACE_HEADER_KEYS[i] = name

\* the bytes of a string, most significant first, as an unsigned number
RECURSIVE Unsigned(_)
Unsigned(str) ==
    IF str = <<>> THEN 0
    ELSE Unsigned(SubSeq(str, 1, Len(str) - 1)) * 256 + str[Len(str)]

\* ... as a two's complement number
TwosComplement(str) ==
    Unsigned(<<IF str[1] >= 128 THEN str[1] - 256 ELSE str[1]>> \o Tail(str))

Reverse(str) == [i \in 1..Len(str) |-> str[Len(str) + 1 - i]]

\* unpack_header_value(endian, packed_value, length, special_format)
unpack_header_value(endian, packed_value, length, special_format) ==
    LET msb == IF endian = ">" THEN packed_value ELSE Reverse(packed_value)
    IN  IF special_format = "H" THEN Unsigned(msb)
        ELSE TwosComplement(msb)

\* header[start: start + length]
Slice(buf, start, length) == [i \in 1..length |-> buf[start + i]]

(***************************************************************************)
(* LazyTraceHeaderAttribDict.  An object is its __dict__: a function from  *)
(* the names present to their values.                                      *)
(***************************************************************************)
readonly == {"unpacked_header", "endian"}

Value(x) == [kind |-> "value", val |-> x]
AttributeError == [kind |-> "AttributeError"]
None == [kind |-> "None"]

With(d, name, v) == [n \in DOMAIN d \cup {name} |-> IF n = name THEN v ELSE d[n]]

\* AttribDict.__setitem__ (also __setattr__): read only names raise
SetItem(d, name, v) ==
    IF name \in readonly
    THEN [dict |-> d, ret |-> AttributeError]
    ELSE [dict |-> With(d, name, v), ret |-> None]

\* __getitem__ that unpacks every field as a plain two's complement number
GetItemNoSpecial(d, name) ==
    IF name \in DOMAIN d
    THEN [dict |-> d, ret |-> Value(d[name]), read |-> FALSE]
    ELSE IF name \notin SchemaNames
    THEN [dict |-> d, ret |-> AttributeError, read |-> FALSE]
    ELSE LET e == TRACE_HEADER_FORMAT[KeyIndex(name)]
             attribute == unpack_header_value(
                              d["endian"],
                              Slice(d["unpacked_header"], e.start, e.length),
                              e.length, "")
         IN  [dict |-> SetItem(d, e.name, attribute).dict,
              ret  |-> Value(attribute), read |-> TRUE]

\* __getitem__ that answers None for a name it does not know
GetItemNoRaise(d, name) ==
    IF name \in DOMAIN d
    THEN [dict |-> d, ret |-> Value(d[name]), read |-> FALSE]
    ELSE IF name \notin SchemaNames
    THEN [dict |-> d, ret |-> None, read |-> FALSE]
    ELSE LET e == TRACE_HEADER_FORMAT[KeyIndex(name)]
             attribute == unpack_header_value(
                              d["endian"],
                              Slice(d["unpacked_header"], e.start, e.length),
                              e.length, e.special_format)
         IN  [dict |-> SetItem(d, e.name, attribute).dict,
              ret  |-> Value(attribute), read |-> TRUE]

\* __getitem__ without the early return for a name already set
GetItemAlwaysUnpack(d, name) ==
    IF name \notin SchemaNames
    THEN [dict |-> d, ret |-> AttributeError, read |-> FALSE]
    ELSE LET e == TRACE_HEADER_FORMAT[KeyIndex(name)]
             attribute == unpack_header_value(
                              d["endian"],
                              Slice(d["unpacked_header"], e.start, e.length),
                              e.length, e.special_format)
         IN  [dict |-> SetItem(d, e.name, attribute).dict,
              ret  |-> Value(attribute), read |-> TRUE]

\* __getitem__ that clears in the buffer the bytes it has unpacked
GetItemConsuming(d, name) ==
    IF name \in DOMAIN d
    THEN [dict |-> d, ret |-> Value(d[name]), read |-> FALSE]
    ELSE IF name \notin SchemaNames
    THEN [dict |-> d, ret |-> AttributeError, read |-> FALSE]
    ELSE LET e == TRACE_HEADER_FORMAT[KeyIndex(name)]
             attribute == unpack_header_value(
                              d["endian"],
                              Slice(d["unpacked_header"], e.start, e.length),
                              e.length, e.special_format)
             rest == [i \in DOMAIN d["unpacked_header"] |->
                         IF i > e.start /\ i <= e.start + e.length THEN 0
                         ELSE d["unpacked_header"][i]]
         IN  [dict |-> With(SetItem(d, e.name, attribute).dict, "unpacked_header", rest),
              ret  |-> Value(attribute), read |-> TRUE]

\* __getitem__ (also __getattr__): the __dict__ afterwards, what is
\* returned or raised, and whether the header buffer was sliced
GetItem(d, name) ==
    IF name \in DOMAIN d
    THEN [dict |-> d, ret |-> Value(d[name]), read |-> FALSE]
    ELSE IF name \notin SchemaNames
    THEN [dict |-> d, ret |-> AttributeError, read |-> FALSE]
    ELSE LET e == TRACE_HEADER_FORMAT[KeyIndex(name)]
             attribute == unpack_header_value(
                              d["endian"],
                              Slice(d["unpacked_header"], e.start, e.length),
                              e.length, e.special_format)
         IN  [dict |-> SetItem(d, e.name, attribute).dict,
              ret  |-> Value(attribute), read |-> TRUE]

\* AttribDict.update(data): every item through __setitem__
RECURSIVE Update(_, _)
Update(d, data) ==
    IF DOMAIN data = {} THEN d
    ELSE LET k == CHOOSE k \in DOMAIN data : TRUE
         IN  Update(SetItem(d, k, data[k]).dict,
                    [n \in DOMAIN data \ {k} |-> data[n]])

Empty == [n \in {} |-> 0]

\* __init__(unpacked_header, unpacked_header_endian, data)
LazyInit(unpacked_header, unpacked_header_endian, data) ==
    With(With(Update(Empty, data), "unpacked_header", unpacked_header),
         "endian", unpacked_header_endian)

\* a __deepcopy__ that hands back the object itself
DeepCopySelf(heap, src, fresh) == [ref |-> src, obj |-> heap[src]]

\* __deepcopy__: a new object built from copies of the buffer, the byte
\* order and every item that is not read only
DeepCopy(heap, src, fresh) ==
    [ref |-> fresh,
     obj |-> LazyInit(heap[src]["unpacked_header"], heap[src]["endian"],
                      [k \in DOMAIN heap[src] \ readonly |-> heap[src][k]])]

\* SEGYTraceHeader._read_trace_header: every field of the table unpacked
EagerHeader(header, endian) ==
    [n \in SchemaNames |->
        LET e == TRACE_HEADER_FORMAT[KeyIndex(n)]
        IN  unpack_header_value(endian, Slice(header, e.start, e.length),
                                e.length, e.special_format)]


(***************************************************************************)
(* The byte sources the detector is run on.                                *)
(***************************************************************************)
MaxCode == 9

CodePairs == {<<0, v>> : v \in 0..MaxCode} \cup {<<v, 0>> : v \in 0..MaxCode}
                 \cup {<<1, 1>>, <<255, 255>>}
RevPairs  == {<<0, 0>>, <<1, 0>>, <<0, 1>>, <<0, 16>>, <<16, 0>>, <<0, 2>>}
PosPairs  == {<<0, 0>>, <<0, 1>>, <<128, 0>>}
SignPairs == {<<0, 0>>, <<0, 128>>, <<128, 0>>}
FlagPairs == {<<0, 0>>, <<255, 255>>}

\* every field present: a file of at least 3506 bytes
FullLen == FieldAt["extended_number"] + 2

\* lengths that cut the file before, inside and between the fields read
ShortLens == {0, 3212, 3213, 3217, 3225, 3226, 3500, 3501, 3503, 3505}

FullFiles ==
    { [openable |-> TRUE, len |-> FullLen,
       fld |-> [number_of_data_traces      |-> ndt,
                number_of_auxiliary_traces |-> nat,
                sample_interval            |-> si,
                samples_per_trace          |-> spt,
                data_format_code           |-> code,
                format_number              |-> rev,
                fixed_length               |-> fl,
                extended_number            |-> en]] :
       ndt \in SignPairs, nat \in FlagPairs, si \in PosPairs, spt \in PosPairs,
       code \in CodePairs, rev \in RevPairs, fl \in FlagPairs, en \in FlagPairs }

PlainFields(code, rev) ==
    [number_of_data_traces      |-> <<0, 0>>,
     number_of_auxiliary_traces |-> <<0, 0>>,
     sample_interval            |-> <<1, 1>>,
     samples_per_trace          |-> <<1, 1>>,
     data_format_code           |-> code,
     format_number              |-> rev,
     fixed_length               |-> <<0, 0>>,
     extended_number            |-> <<0, 0>>]

OtherFiles ==
    { [openable |-> o, len |-> l, fld |-> PlainFields(code, rev)] :
       o \in BOOLEAN, l \in ShortLens \cup {FullLen, FullLen + 94},
       code \in CodePairs, rev \in RevPairs }

\* every one of the 65536 patterns of the data sample format code, in a
\* file whose other fields pass every check in either byte order
CodeFiles ==
    { [openable |-> TRUE, len |-> FullLen, fld |-> PlainFields(<<hi, lo>>, <<0, 0>>)] :
       hi \in Byte, lo \in Byte }

(***************************************************************************)
(* The trace header buffers the lazy header is built over, and the values  *)
(* written to it.                                                          *)
(***************************************************************************)
MaxSetVal == 2
MaxReads  == 2

SetVals == 1..MaxSetVal

\* a 240 byte trace header holding b4 at bytes 0-3 and b2 at bytes 114-115
HeaderBuffer(b4, b2) ==
    [i \in 1..240 |-> IF i <= 4 THEN b4[i]
                      ELSE IF i \in {115, 116} THEN b2[i - 114]
                      ELSE 0]

FewBuffers == {HeaderBuffer(<<1, 2, 3, 4>>, <<255, 254>>),
               HeaderBuffer(<<255, 255, 255, 254>>, <<0, 1>>)}

ByteVals == {0, 1, 128, 255}

ManyBuffers ==
    {HeaderBuffer(<<a, b, c, d>>, <<x, y>>) :
        a \in ByteVals, b \in {0, 255}, c \in {0, 255}, d \in ByteVals,
        x \in ByteVals, y \in ByteVals}

\* the names the operations are tried with: the table's, one that is not
\* in the table, and the two read only ones
Names == SchemaNames \cup {"comment"} \cup readonly

\* the names tried on a header and its copy
CopyNames == SchemaNames \cup {"endian"}

Handles == {"header", "copy"}

NoHist == [set |-> Empty, reads |-> [n \in SchemaNames |-> 0]]

Idle == [state |-> "idle", ret |-> "none", endian |-> "none", log |-> <<>>]

\* a component no call has been made on
Unused == [state |-> "unused"]

Parked ==
    /\ exth = Unused
    /\ layout = Unused
    /\ surg = Unused
    /\ wr = Unused
    /\ rt = Unused
    /\ schema = Unused
    /\ comp = Unused
    /\ thr = Unused

\* _read_su: the lazy header of a trace read from a file, and the header
\* the same bytes give with unpack_trace_headers=True
HeaderRead(buf, endian) ==
    /\ objs  = [i \in 1..2 |-> IF i = 1 THEN LazyInit(buf, endian, Empty) ELSE Empty]
    /\ view  = [header |-> 1, copy |-> 0]
    /\ hist  = [i \in 1..2 |-> NoHist]
    /\ last  = [op |-> "init", h |-> "header", name |-> "", ret |-> None]
    /\ eager = EagerHeader(buf, endian)

Init ==
    /\ file \in FullFiles \cup OtherFiles
    /\ det = Idle
    /\ HeaderRead(HeaderBuffer(<<0, 0, 0, 0>>, <<0, 0>>), ">")
    /\ Parked

InitCode ==
    /\ file \in CodeFiles
    /\ det = Idle
    /\ HeaderRead(HeaderBuffer(<<0, 0, 0, 0>>, <<0, 0>>), ">")
    /\ Parked

InitLazy ==
    /\ file = [openable |-> FALSE, len |-> 0, fld |-> PlainFields(<<0, 0>>, <<0, 0>>)]
    /\ det = Idle
    /\ \E buf \in FewBuffers, endian \in {">", "<"} : HeaderRead(buf, endian)
    /\ Parked

InitCopy ==
    /\ file = [openable |-> FALSE, len |-> 0, fld |-> PlainFields(<<0, 0>>, <<0, 0>>)]
    /\ det = Idle
    /\ \E endian \in {">", "<"} :
          HeaderRead(HeaderBuffer(<<1, 2, 3, 4>>, <<255, 254>>), endian)
    /\ Parked

InitEager ==
    /\ file = [openable |-> FALSE, len |-> 0, fld |-> PlainFields(<<0, 0>>, <<0, 0>>)]
    /\ det = Idle
    /\ \E buf \in ManyBuffers, endian \in {">", "<"} : HeaderRead(buf, endian)
    /\ Parked

\* one call of _is_segy(file)
IsSegy ==
    /\ det.state = "idle"
    /\ \E r \in {IsSegyOutcome(file)} :
           det' = [state |-> "done", ret |-> r.ret, endian |-> r.endian, log |-> r.log]
    /\ UNCHANGED <<file, lazyVars, restVars>>

\* header[name] / header.name through the name h
Get(h, name) ==
    /\ view[h] # 0
    /\ \E r \in {GetItem(objs[view[h]], name)} :
          /\ objs' = [objs EXCEPT ![view[h]] = r.dict]
          /\ hist' = IF r.read
                     THEN [hist EXCEPT ![view[h]].reads[name] = Min(@ + 1, MaxReads)]
                     ELSE hist
          /\ last' = [op |-> "get", h |-> h, name |-> name, ret |-> r.ret]
    /\ UNCHANGED <<detVars, view, eager, restVars>>

\* header[name] = v / header.name = v through the name h
Set(h, name, v) ==
    /\ view[h] # 0
    /\ \E r \in {SetItem(objs[view[h]], name, v)} :
          /\ objs' = [objs EXCEPT ![view[h]] = r.dict]
          /\ hist' = IF r.ret = None
                     THEN [hist EXCEPT ![view[h]].set = With(@, name, v)]
                     ELSE hist
          /\ last' = [op |-> "set", h |-> h, name |-> name, ret |-> r.ret]
    /\ UNCHANGED <<detVars, view, eager, restVars>>

\* copy = deepcopy(header)
Copy ==
    /\ \E r \in {DeepCopy(objs, view["header"], 2)} :
          /\ objs' = [objs EXCEPT ![r.ref] = r.obj]
          /\ view' = [view EXCEPT !["copy"] = r.ref]
          /\ hist' = [hist EXCEPT ![2] =
                        [set   |-> [k \in DOMAIN r.obj \ readonly |-> r.obj[k]],
                         reads |-> [n \in SchemaNames |-> 0]]]
    /\ last' = [op |-> "copy", h |-> "copy", name |-> "", ret |-> None]
    /\ UNCHANGED <<detVars, eager, restVars>>

Next == IsSegy

NextLazy ==
    \/ \E name \in Names : Get("header", name)
    \/ \E name \in Names, v \in SetVals : Set("header", name, v)

NextCopy ==
    \/ \E h \in Handles, name \in CopyNames : Get(h, name)
    \/ \E h \in Handles, name \in CopyNames, v \in SetVals : Set(h, name, v)
    \/ Copy

NextEager == \E name \in Names : Get("header", name)

Spec == Init /\ [][Next]_vars

SpecCode == InitCode /\ [][Next]_vars

SpecLazy == InitLazy /\ [][NextLazy]_vars

SpecCopy == InitCopy /\ [][NextCopy]_vars

SpecEager == InitEager /\ [][NextEager]_vars

(***************************************************************************)
(* seismo_segy_read_binary_header: where the binary header starts and the  *)
(* slices of it the reader unpacks.                                        *)
(***************************************************************************)
BinaryHeaderAt ==
    [start |-> 3200,
     traces_per_ensemble           |-> 12,
     auxiliary_trace_per_ensemble  |-> 14,
     dt                            |-> 16,
     ns                            |-> 20,
     data_sample_format            |-> 24,
     seg_y_revision                |-> 300,
     fixed_length_trace_flag       |-> 302,
     num_extended_headers          |-> 304]

(***************************************************************************)
(* Properties of the format detector.                                      *)
(***************************************************************************)
Done == det.state = "done"

\* a two-byte field of the file as a signed 16-bit number
BigValue(p)    == S16(p[1] * 256 + p[2])
LittleValue(p) == S16(p[2] * 256 + p[1])
ValueIn(e, p)  == IF e = ">" THEN BigValue(p) ELSE LittleValue(p)

CodeRead == file.openable /\ file.len >= FieldAt["data_format_code"] + 2

\* C1: the byte order is Big iff the format code is valid big endian;
\* otherwise Little iff it is valid little endian; a code valid under
\* neither order makes the detector return False whatever the other fields
\* hold.
C1_ByteOrderSelection ==
    (Done /\ CodeRead) =>
        LET code == file.fld["data_format_code"]
            big  == BigValue(code) \in {1, 2, 3, 4, 5, 8}
            lit  == LittleValue(code) \in {1, 2, 3, 4, 5, 8}
        IN  /\ big => det.endian = ">"
            /\ (~big /\ lit) => det.endian = "<"
            /\ (~big /\ ~lit) => (det.endian = "none" /\ det.ret = "False")

C1_Witness ==
    /\ Done /\ CodeRead /\ det.endian = "<"
    /\ file.fld["data_format_code"] = <<8, 0>>

\* C2: for every 2-byte pattern of the format code at most one of the two
\* decodings the detector computes is a valid code, so the order selected is
\* the only valid one.
C2_AtMostOneOrderValid ==
    LET code  == file.fld["data_format_code"]
        valid == {e \in {">", "<"} : Unpack_h(e, code) \in VALID_FORMATS}
    IN  /\ Cardinality(valid) <= 1
        /\ Done => valid = {det.endian} \ {"none"}

C2_Witness ==
    /\ Done /\ det.endian = "<"
    /\ file.fld["data_format_code"] = <<5, 0>>

\* every constraint of the claim, on the bytes of the file
C3_Constraints(e) ==
    /\ file.len >= 3506
    /\ ValueIn(e, file.fld["sample_interval"]) > 0
    /\ ValueIn(e, file.fld["samples_per_trace"]) > 0
    /\ ValueIn(e, file.fld["number_of_data_traces"]) >= 0
    /\ ValueIn(e, file.fld["number_of_auxiliary_traces"]) >= 0
    /\ ValueIn(e, file.fld["fixed_length"]) >= 0
    /\ ValueIn(e, file.fld["extended_number"]) >= 0
    /\ ValueIn(e, file.fld["format_number"]) \in {0, 256, 16, 1}

\* C3: with a byte order selected, _is_segy returns True iff every one of
\* the seven constraints holds in that order; on a file holding all eight
\* fields a failed constraint makes it return False.
C3_TrueIffAllConstraints ==
    (Done /\ det.endian # "none") =>
        /\ det.ret = "True" <=> C3_Constraints(det.endian)
        /\ file.len >= 3506 => det.ret \in {"True", "False"}

C3_Witness ==
    /\ Done /\ det.endian = "<" /\ det.ret = "True"
    /\ file.fld["number_of_data_traces"] = <<128, 0>>

\* C4: detection never raises: an unopenable, empty or short byte source
\* makes _is_segy return False.
C4_NeverRaises ==
    (Done /\ (~file.openable \/ file.len < 3506)) => det.ret = "False"

\* the bytes of the file a read returned
Touched(r) == {r.at + k - 1 : k \in 1..Len(r.got)}

C5_Offsets == <<3212, 3214, 3216, 3220, 3224, 3500, 3502, 3504>>

\* C5: the detector asks for exactly eight 2-byte reads, gets no byte
\* outside the eight fields at 3212, 3214, 3216, 3220, 3224, 3500, 3502 and
\* 3504, reads each field at its offset, and these offsets are 3200 plus
\* the offsets the binary header reader uses.
C5_ReadsOnlyTheEightFields ==
    (Done /\ file.openable) =>
        /\ Len(det.log) = 8
        /\ \A i \in 1..8 :
              /\ det.log[i].want = 2
              /\ Touched(det.log[i]) \subseteq {C5_Offsets[i], C5_Offsets[i] + 1}
              /\ \A k \in 1..Len(det.log[i].got) :
                    det.log[i].got[k] = FileByte(file, det.log[i].at + k - 1)
              /\ file.len >= 3506 =>
                    (det.log[i].at = C5_Offsets[i] /\ Len(det.log[i].got) = 2)
        /\ <<C5_Offsets[3], C5_Offsets[4], C5_Offsets[5],
             C5_Offsets[6], C5_Offsets[7], C5_Offsets[8]>>
             = [i \in 1..6 |->
                   BinaryHeaderAt.start +
                   <<BinaryHeaderAt.dt, BinaryHeaderAt.ns,
                     BinaryHeaderAt.data_sample_format,
                     BinaryHeaderAt.seg_y_revision,
                     BinaryHeaderAt.fixed_length_trace_flag,
                     BinaryHeaderAt.num_extended_headers>>[i]]

C5_Witness ==
    /\ Done /\ file.openable /\ file.len >= 3506
    /\ Len(det.log) = 8 /\ det.log[8].at = 3504 /\ Len(det.log[8].got) = 2

(***************************************************************************)
(* Properties of the lazy trace header.                                    *)
(***************************************************************************)
\* what header[name] gives on the object d
Lookup(d, name) == GetItem(d, name).ret

\* everything a view shows: its buffer, its byte order and every field
Shown(os, vw, h) == [n \in Names |-> Lookup(os[vw[h]], n)]

\* the bytes of field f in the buffer of object d, unpacked as the table says
Unpacked(d, f) ==
    LET e == TRACE_HEADER_FORMAT[KeyIndex(f)]
    IN  unpack_header_value(d["endian"], Slice(d["unpacked_header"], e.start, e.length),
                            e.length, e.special_format)

C6_GetStep ==
    (last'.op = "get" /\ last'.name \in SchemaNames) =>
        LET o == view[last'.h]
            f == last'.name
        IN  IF f \in DOMAIN objs[o]
            THEN /\ last'.ret = Value(objs[o][f])
                 /\ hist' = hist
                 /\ objs' = objs
            ELSE /\ hist'[o].reads[f] = hist[o].reads[f] + 1
                 /\ \A g \in SchemaNames \ {f} : hist'[o].reads[g] = hist[o].reads[g]
                 /\ last'.ret = Value(Unpacked(objs[o], f))
                 /\ objs'[o] = With(objs[o], f, last'.ret.val)

\* C6: the first get of a schema field slices the buffer once, at the
\* field's offset and length, and stores the value under the field's name;
\* every later get returns the stored value without touching the buffer,
\* so no field is unpacked more than once.
C6_UnpackedAtMostOnce ==
    /\ [](\A o \in 1..2 : \A f \in SchemaNames : hist[o].reads[f] <= 1)
    /\ [][C6_GetStep]_vars

C6_Witness ==
    /\ last.op = "get" /\ last.name = "number_of_samples_in_this_trace"
    /\ last.ret = Value(65279)
    /\ hist[1].reads["number_of_samples_in_this_trace"] = 1
    /\ hist[1].reads["trace_sequence_number_within_line"] = 1
    /\ DOMAIN hist[1].set = {}

\* C7: every field of the eagerly unpacked header equals what get gives on
\* the lazy header over the same buffer and byte order, whichever fields
\* were accessed before.
C7_EagerEqualsLazy ==
    /\ \A f \in SchemaNames : Lookup(objs[view["header"]], f) = Value(eager[f])
    /\ (last.op = "get" /\ last.name \in SchemaNames) => last.ret = Value(eager[last.name])

C7_Witness ==
    /\ last.op = "get" /\ last.name = "number_of_samples_in_this_trace"
    /\ last.ret = Value(65408)
    /\ objs[1]["endian"] = "<"
    /\ "trace_sequence_number_within_line" \in DOMAIN objs[1]
    /\ eager["trace_sequence_number_within_line"] < 0

C8_Step ==
    \A f \in Names :
        Lookup(objs'[1], f) # Lookup(objs[1], f) =>
            (last'.op = "set" /\ last'.name = f /\ last'.ret = None)

\* C8: after set(f, v) every get(f) returns v until the next set on f, and
\* nothing but a set on f changes what get(f) returns: not a get, and not a
\* set on another field.
C8_SetWritesThrough ==
    /\ [](\A f \in DOMAIN hist[1].set : Lookup(objs[1], f) = Value(hist[1].set[f]))
    /\ [][C8_Step]_vars

C8_Witness ==
    /\ last.op = "get" /\ last.name = "number_of_samples_in_this_trace"
    /\ last.ret = Value(2)
    /\ hist[1].set = [n \in {"number_of_samples_in_this_trace"} |-> 2]
    /\ hist[1].reads["number_of_samples_in_this_trace"] = 1
    /\ "trace_sequence_number_within_line" \in DOMAIN objs[1]

Other(h) == IF h = "header" THEN "copy" ELSE "header"

C9_CopyStep ==
    last'.op = "copy" =>
        /\ view'["copy"] # view'["header"]
        /\ objs'[view'["copy"]]["unpacked_header"] = objs[view["header"]]["unpacked_header"]
        /\ objs'[view'["copy"]]["endian"] = objs[view["header"]]["endian"]
        /\ \A n \in Names :
              Lookup(objs'[view'["copy"]], n) = Lookup(objs[view["header"]], n)
        /\ Shown(objs', view', "header") = Shown(objs, view, "header")

C9_OpStep ==
    (last'.op \in {"get", "set"} /\ view["copy"] # 0) =>
        /\ view' = view
        /\ Shown(objs', view', Other(last'.h)) = Shown(objs, view, Other(last'.h))

\* C9: the deep copy is a separate object with an equal buffer, an equal
\* byte order and a copy of the cache; afterwards no get or set through one
\* of the two views changes the buffer, the byte order or any field value
\* of the other.
C9_CopyIndependence == [][C9_CopyStep /\ C9_OpStep]_vars

C9_Witness ==
    /\ view["copy"] = 2
    /\ last.op = "set" /\ last.h = "header"
    /\ last.name = "number_of_samples_in_this_trace"
    /\ Lookup(objs[1], last.name) = Value(2)
    /\ Lookup(objs[2], last.name) = Value(1)
    /\ hist[2].reads[last.name] = 0

C10_NeverSet == last.name \notin DOMAIN hist[view[last.h]].set

\* C10 as stated: get of a name that is not in the schema and was never
\* set fails with AttributeError.
C10_UnknownNameFails ==
    (last.op = "get" /\ last.name \notin SchemaNames /\ C10_NeverSet)
        => last.ret = AttributeError

C10_FailStep ==
    (last'.op = "get" /\ last'.ret = AttributeError) =>
        (objs' = objs /\ view' = view /\ hist' = hist)

\* C10 amended: get of a name that is not in the schema, is not one of the
\* read only names unpacked_header and endian, and was never set fails with
\* AttributeError and leaves the cache, the buffer and the byte order as
\* they were.
C10_UnknownNameFailsCleanly ==
    /\ []((last.op = "get" /\ last.name \notin SchemaNames \cup readonly /\ C10_NeverSet)
             => last.ret = AttributeError)
    /\ [][C10_FailStep]_vars

C10_Witness ==
    /\ last.op = "get" /\ last.name = "comment"
    /\ last.ret = AttributeError
    /\ DOMAIN objs[1] = readonly \cup SchemaNames
    /\ DOMAIN hist[1].set = {"trace_sequence_number_within_line"}

(***************************************************************************)
(* seismo_segy_read_extended_textual_headers.  Bytes are kept as runs: a   *)
(* sequence of [b, n] standing for the byte b repeated n times, so a       *)
(* 3200-byte block is a few runs.  exth.tail is what lies in the file from *)
(* offset 3600 on, cut into the blocks that file.read(3200) returns one    *)
(* after the other: every block 3200 bytes long but possibly the last.     *)
(***************************************************************************)
BlockSize == 3200

MaxBlocks == 3

Run(b, n) == [b |-> b, n |-> n]

RECURSIVE RunsLen(_)
RunsLen(rs) == IF rs = <<>> THEN 0 ELSE Head(rs).n + RunsLen(Tail(rs))

\* the k-th file.read(3200) after file.seek(3600); b'' at the end of file
ReadBlock(tail, k) == IF k <= Len(tail) THEN tail[k] ELSE <<>>

\* all(32 <= byte <= 126 or byte == 10 or byte == 13 for byte in ...)
IsText(extended_header) ==
    \A i \in 1..Len(extended_header) :
        \/ 32 <= extended_header[i].b /\ extended_header[i].b <= 126
        \/ extended_header[i].b = 10
        \/ extended_header[i].b = 13

\* bytes.decode('ascii') of bytes that passed IsText: one character, named
\* by its code point, for each byte
Decode(bs) == [i \in 1..Len(bs) |-> [c |-> bs[i].b, n |-> bs[i].n]]

\* the characters str.strip() removes, of those that pass IsText
Whitespace == {32, 10, 13}

RECURSIVE LStrip(_)
LStrip(t) ==
    IF t = <<>> THEN <<>>
    ELSE IF Head(t).c \in Whitespace THEN LStrip(Tail(t)) ELSE t

RECURSIVE RStrip(_)
RStrip(t) ==
    IF t = <<>> THEN <<>>
    ELSE IF t[Len(t)].c \in Whitespace THEN RStrip(SubSeq(t, 1, Len(t) - 1)) ELSE t

Strip(t) == RStrip(LStrip(t))

\* header.replace("\r\n", "\n"): of a run of CRs that an LF follows, the
\* last CR goes
ReplaceCRLF(t) ==
    SelectSeq([i \in 1..Len(t) |->
                  IF t[i].c = 13 /\ i < Len(t) /\ t[i + 1].c = 10
                  THEN [c |-> 13, n |-> t[i].n - 1]
                  ELSE t[i]],
              LAMBDA r : r.n > 0)

\* same-character neighbours joined, so that equal strings are equal values
RECURSIVE Canon(_)
Canon(t) ==
    IF Len(t) < 2 THEN t
    ELSE IF t[1].c = t[2].c
         THEN Canon(<<[c |-> t[1].c, n |-> t[1].n + t[2].n]>> \o Tail(Tail(t)))
    ELSE <<Head(t)>> \o Canon(Tail(t))

\* a scan that steps over a block that is not text and goes on
RECURSIVE ScanFromSkipping(_, _, _, _)
ScanFromSkipping(tail, k, headers, bytesize) ==
    LET extended_header == ReadBlock(tail, k) IN
    IF extended_header = <<>> THEN [headers |-> headers, bytesize |-> bytesize]
    ELSE IF IsText(extended_header)
         THEN ScanFromSkipping(tail, k + 1,
                       Append(headers, Strip(Decode(extended_header))),
                       bytesize + RunsLen(extended_header))
    ELSE ScanFromSkipping(tail, k + 1, headers, bytesize)

\* the while True loop, from its k-th turn on
RECURSIVE ScanFrom(_, _, _, _)
ScanFrom(tail, k, headers, bytesize) ==
    LET extended_header == ReadBlock(tail, k) IN
    IF extended_header = <<>> THEN [headers |-> headers, bytesize |-> bytesize]
    ELSE IF IsText(extended_header)
         THEN ScanFrom(tail, k + 1,
                       Append(headers, Strip(Decode(extended_header))),
                       bytesize + RunsLen(extended_header))
    ELSE [headers |-> headers, bytesize |-> bytesize]

\* formatted_header: every header with its CRLFs replaced and "\n" added
RECURSIVE Format(_)
Format(headers) ==
    IF headers = <<>> THEN <<>>
    ELSE ReplaceCRLF(Head(headers)) \o <<[c |-> 10, n |-> 1]>> \o Format(Tail(headers))

\* what the function leaves behind: its locals at the return statement and
\* the one value it returns, a str
ReadExtendedOutcome(tail) ==
    LET r == CHOOSE x \in {ScanFrom(tail, 1, <<>>, 0)} : TRUE IN
    [headers  |-> r.headers,
     bytesize |-> r.bytesize,
     ret      |-> [type |-> "str", value |-> Canon(Format(r.headers))]]

\* the blocks the files are made of
FullBlocks ==
    { <<Run(65, BlockSize)>>,
      <<Run(32, 5), Run(67, 10), Run(13, 1), Run(10, 1), Run(72, BlockSize - 22), Run(32, 5)>>,
      <<Run(126, 1), Run(13, 2), Run(10, 2), Run(32, BlockSize - 5)>>,
      <<Run(32, BlockSize)>>,
      <<Run(0, 1), Run(65, BlockSize - 1)>>,
      <<Run(65, BlockSize - 1), Run(0, 1)>>,
      <<Run(65, 1600), Run(127, 1), Run(65, 1599)>>,
      <<Run(9, 1), Run(65, BlockSize - 1)>>,
      <<Run(0, 240), Run(200, BlockSize - 240)>> }

PartBlocks == { <<Run(65, 100)>>, <<Run(66, 50), Run(31, 1)>> }

RECURSIVE SeqsUpTo(_, _)
SeqsUpTo(S, n) ==
    IF n = 0 THEN {<<>>}
    ELSE LET shorter == SeqsUpTo(S, n - 1) IN
         shorter \cup {Append(q, x) : q \in {r \in shorter : Len(r) = n - 1}, x \in S}

Tails ==
    LET full == SeqsUpTo(FullBlocks, MaxBlocks) IN
    full \cup {Append(q, x) : q \in {r \in full : Len(r) < MaxBlocks}, x \in PartBlocks}

DetIdle ==
    /\ file = [openable |-> FALSE, len |-> 0, fld |-> PlainFields(<<0, 0>>, <<0, 0>>)]
    /\ det = Idle

LazyIdle == HeaderRead(HeaderBuffer(<<0, 0, 0, 0>>, <<0, 0>>), ">")

InitExth ==
    /\ DetIdle
    /\ LazyIdle
    /\ exth \in {[state |-> "file", tail |-> t] : t \in Tails}
    /\ layout = Unused
    /\ surg = Unused
    /\ wr = Unused
    /\ rt = Unused
    /\ schema = Unused
    /\ comp = Unused
    /\ thr = Unused

\* one call of seismo_segy_read_extended_textual_headers(segy_file_path)
ReadExtendedHeaders ==
    /\ exth.state = "file"
    /\ \E r \in {ReadExtendedOutcome(exth.tail)} :
          exth' = [state |-> "done", tail |-> exth.tail, headers |-> r.headers,
                   bytesize |-> r.bytesize, ret |-> r.ret]
    /\ UNCHANGED <<detVars, lazyVars, layout, surg, wr, rt, moreVars>>

NextExth == ReadExtendedHeaders

SpecExth == InitExth /\ [][NextExth]_vars

\* the bytes the claims call text
TextBytes == (32..126) \cup {10, 13}

AllText(block) == \A i \in 1..Len(block) : block[i].b \in TextBytes

\* how many blocks stand before the first one that is not all text
TextPrefix(tail) ==
    CHOOSE n \in 0..Len(tail) :
        /\ \A i \in 1..n : AllText(tail[i])
        /\ n < Len(tail) => ~AllText(tail[n + 1])

\* C12: the scan accepts a block iff all its bytes are in 0x20..0x7E or CR
\* or LF, and it stops at the first block that fails: the headers it keeps
\* are those of the longest prefix of accepted blocks, one per block and in
\* file order, and the string it returns is made of these and of no block
\* after the first rejected one.
C12_LongestTextPrefix ==
    exth.state = "done" =>
        LET n == TextPrefix(exth.tail) IN
        /\ Len(exth.headers) = n
        /\ \A i \in 1..n : exth.headers[i] = Strip(Decode(exth.tail[i]))
        /\ exth.ret.value = Canon(Format([i \in 1..n |-> Strip(Decode(exth.tail[i]))]))

\* a text block, a block with a NUL, a text block: only the first is kept
C12_Witness ==
    /\ exth.state = "done"
    /\ Len(exth.tail) = 3
    /\ AllText(exth.tail[1])
    /\ \E i \in 1..Len(exth.tail[2]) : exth.tail[2][i].b = 0
    /\ AllText(exth.tail[3])
    /\ Len(exth.headers) = 1

\* C13: the scanner returns both the sequence of the decoded blocks, in
\* file order and with CRLF replaced by one line terminator, and the count
\* of the bytes consumed, 3200 times the number of accepted blocks.
C13_ReturnsBlocksAndCount ==
    exth.state = "done" =>
        LET n == TextPrefix(exth.tail) IN
        /\ exth.ret.type = "pair"
        /\ exth.ret.blocks = [i \in 1..n |-> Canon(ReplaceCRLF(Decode(exth.tail[i])))]
        /\ exth.ret.consumed = BlockSize * n

(***************************************************************************)
(* seismo_get_segy_number_of_traces and seismo_read_trace_headers: where   *)
(* the traces start and how far one trace reaches.  layout.f is the file:  *)
(* its size, the binary header fields as '>h' decodes them, and what the   *)
(* textual header says of the sample count and sample interval.  Names the *)
(* module uses without importing them (struct, os) stand for the standard  *)
(* modules, and read_textual_header, read_binary_header and                *)
(* read_num_samples_from_textual_header for the seismo_segy_* functions.   *)
(***************************************************************************)
MaxTraces == 2

\* int(a / d) of Python for integers a >= 0 and d # 0: the quotient cut
\* towards zero
Trunc(a, d) == IF d > 0 THEN a \div d ELSE 0 - (a \div (0 - d))

\* int((10**6/dt)*60)
SamplesIn60s(dt) == Trunc(60000000, dt)

\* the counter forgetting the 400 bytes of the binary header
StartWithoutBinaryHeader(num_extended_headers) == 3200 + (num_extended_headers * 3200)

\* file.seek(3600 + (num_extended_headers*3200)), which returns the position
Start(num_extended_headers) == 3600 + (num_extended_headers * 3200)

\* offset = 3200 + 400 + (num_ext_text_headers*3200)
Offset(num_ext_text_headers) == 3200 + 400 + (num_ext_text_headers * 3200)

\* seismo_get_segy_number_of_traces: what it raises, or where it seeks to
\* and the quotient of the true division it returns, as num / den
NumberOfTraces(f) ==
    IF f.size < 3506 THEN [raised |-> "struct.error"]
    ELSE IF f.dt = 0 THEN [raised |-> "ZeroDivisionError"]
    ELSE LET ns    == SamplesIn60s(f.dt)
             start == Start(f.num_extended_headers)
         IN IF start < 0 THEN [raised |-> "OSError"]
            ELSE IF 240 + (ns * 4) = 0 THEN [raised |-> "ZeroDivisionError"]
            ELSE [raised |-> "", start |-> start,
                  ntraces |-> [num |-> f.size - start, den |-> 240 + (ns * 4)]]

\* the while True loop of seismo_read_trace_headers with the file position
\* at pos: the positions of the trace headers it reads
RECURSIVE ReadLoop(_, _, _, _)
ReadLoop(size, pos, ns, starts) ==
    IF Min(240, size - pos) < 240 THEN starts
    ELSE LET at   == pos + 240
             got  == IF ns * 4 < 0 THEN size - at ELSE Min(ns * 4, size - at)
         IN IF got < ns * 4 THEN Append(starts, pos)
            ELSE ReadLoop(size, at + got, ns, Append(starts, pos))

\* seismo_read_trace_headers up to the end of its reading loop
TraceHeaders(f) ==
    IF f.size < 3600 THEN [raised |-> "struct.error"]
    ELSE IF f.text.has_ns /\ ~f.text.has_si THEN [raised |-> "TypeError"]
    ELSE IF f.text.has_ns /\ f.text.si = 0 THEN [raised |-> "ZeroDivisionError"]
    ELSE LET ns     == IF f.text.has_ns THEN SamplesIn60s(f.text.si) ELSE f.ns
             offset == Offset(f.num_extended_headers)
         IN IF offset < 0 THEN [raised |-> "OSError"]
            ELSE [raised |-> "", offset |-> offset, ns |-> ns,
                  starts |-> CHOOSE q \in {ReadLoop(f.size, offset, ns, <<>>)} : TRUE]

NoText == [has_ns |-> FALSE, has_si |-> FALSE, si |-> 0]

Texts == {NoText,
          [has_ns |-> TRUE, has_si |-> TRUE, si |-> 2000],
          [has_ns |-> TRUE, has_si |-> FALSE, si |-> 0]}

\* header fields of the files: extended header counts, sample intervals,
\* sample counts, format codes
ExtCounts == {0, 1, 2, 0 - 2}

Intervals == {0, 1000, 2000, 4000, 0 - 2000}

SampleCounts == {1000, 15000, 30000, 0 - 1}

FormatCodes == {1, 3, 5, 8}

\* file sizes: too short for the binary header, and from the start of the
\* traces on a number of whole traces of one of the sizes in play and
\* possibly a part of a further one
Sizes(n) ==
    {3400, 3550}
      \cup {Offset(n) + (k * 4240) : k \in {0, 1, 5}}
      \cup {Offset(n) + (k * (240 + (30000 * 4))) + e : k \in 0..MaxTraces, e \in {0, 100}}
      \cup {Offset(n) + (k * (240 + (30000 * 2))) : k \in 1..MaxTraces}

LayoutFiles ==
    UNION {{[size |-> sz, num_extended_headers |-> n, dt |-> dt, ns |-> ns,
             data_sample_format |-> c, text |-> NoText] :
               dt \in Intervals, ns \in SampleCounts, c \in FormatCodes,
               sz \in Sizes(IF n < 0 THEN 0 ELSE n)} : n \in ExtCounts}
      \cup
    {[size |-> sz, num_extended_headers |-> 2, dt |-> 2000, ns |-> 1000,
      data_sample_format |-> 5, text |-> t] : t \in Texts, sz \in Sizes(2)}

NotCalled == [raised |-> "not called"]

InitLayout ==
    /\ DetIdle
    /\ LazyIdle
    /\ exth = Unused
    /\ layout \in {[state |-> "file", f |-> f, counter |-> NotCalled, reader |-> NotCalled] :
                      f \in LayoutFiles}
    /\ surg = Unused
    /\ wr = Unused
    /\ rt = Unused
    /\ schema = Unused
    /\ comp = Unused
    /\ thr = Unused

\* one call of seismo_get_segy_number_of_traces(file_path)
GetNumberOfTraces ==
    /\ layout.state = "file"
    /\ layout.counter = NotCalled
    /\ \E r \in {NumberOfTraces(layout.f)} : layout' = [layout EXCEPT !.counter = r]
    /\ UNCHANGED <<detVars, lazyVars, exth, surg, wr, rt, moreVars>>

\* one call of seismo_read_trace_headers(file_path)
ReadTraceHeaders ==
    /\ layout.state = "file"
    /\ layout.reader = NotCalled
    /\ \E r \in {TraceHeaders(layout.f)} : layout' = [layout EXCEPT !.reader = r]
    /\ UNCHANGED <<detVars, lazyVars, exth, surg, wr, rt, moreVars>>

NextLayout == GetNumberOfTraces \/ ReadTraceHeaders

SpecLayout == InitLayout /\ [][NextLayout]_vars

SampleByteWidth(code) ==
    CASE code = 1 -> 4 [] code = 2 -> 4 [] code = 3 -> 2 [] code = 5 -> 4 [] code = 8 -> 1

\* the size of one trace that the binary header of the file declares
DeclaredTraceSize(f) == 240 + (f.ns * SampleByteWidth(f.data_sample_format))

\* C15: the trace count reported is the exact integer
\* floor((file_size - trace_data_offset) / trace_size): with two extended
\* headers, 1000 samples of 4 bytes and file_size = 10000 + k*4240 it is k,
\* and a trailing partial trace never increases it.
C15_ExactTraceCount ==
    /\ layout.state = "file"
    /\ layout.counter.raised = ""
    /\ layout.f.num_extended_headers >= 0
    /\ layout.f.ns > 0
    /\ layout.f.dt > 0
    /\ layout.f.size >= Offset(layout.f.num_extended_headers)
    => /\ layout.counter.ntraces.den > 0
       /\ layout.counter.ntraces.num % layout.counter.ntraces.den = 0
       /\ layout.counter.ntraces.num \div layout.counter.ntraces.den
            = (layout.f.size - Offset(layout.f.num_extended_headers))
                  \div DeclaredTraceSize(layout.f)

\* C16: the size by which the file is advanced from one trace to the next
\* is 240 + samples_per_trace * sample_byte_width, with the binary header's
\* declared sample count and the width of its data-sample-format code.
C16_TraceSize ==
    layout.state = "file" /\ layout.f.ns > 0 /\ layout.f.dt > 0 =>
        /\ layout.counter.raised = "" =>
               layout.counter.ntraces.den = DeclaredTraceSize(layout.f)
        /\ layout.reader.raised = "" =>
               \A i \in 1..(Len(layout.reader.starts) - 1) :
                   layout.reader.starts[i + 1] - layout.reader.starts[i]
                       = DeclaredTraceSize(layout.f)

(***************************************************************************)
(* seismo_segy_remove_extended_headers.  The input is a file of a given    *)
(* size whose bytes are left open but for the two at 3504-3505, the count  *)
(* of extended headers.  A bytes object is a sequence of pieces: n bytes   *)
(* of the input from the offset from, or the bytes lit that the function   *)
(* made itself.  The  elif:  that closes the  if  at line 611 is read as   *)
(* its  else .                                                             *)
(***************************************************************************)
MaxChunks == 2

Src(from, n) == [from |-> from, n |-> n, lit |-> <<>>]

Lit(bs) == [from |-> 0 - 1, n |-> Len(bs), lit |-> bs]

\* infile.read(n) with the file position at pos
ReadPiece(f, pos, n) ==
    LET upto == Min(pos + n, f.size)
    IN  IF upto <= pos THEN Src(pos, 0) ELSE Src(pos, upto - pos)

RECURSIVE PiecesLen(_)
PiecesLen(ps) == IF ps = <<>> THEN 0 ELSE Head(ps).n + PiecesLen(Tail(ps))

\* struct.pack('>h', v)
Pack_h(v) == <<((v + 65536) % 65536) \div 256, (v + 65536) % 256>>

\* a patch that hits the two bytes before the count
PatchFlag(binary_header) ==
    LET len == PiecesLen(binary_header) IN
    <<Src(3200, 302), Lit(Pack_h(0)), Src(3200 + 304, len - 304)>>

\* binary_header[304:306] = struct.pack('>h', 0), on the at least 306
\* bytes read from offset 3200
Patch(binary_header) ==
    LET len == PiecesLen(binary_header) IN
    <<Src(3200, 304), Lit(Pack_h(0)), Src(3200 + 306, len - 306)>>

\* a skip that stays where it is
SkipNothing(pos, num_extended_headers) == pos

\* infile.seek(num_extended_headers * 3200, os.SEEK_CUR)
Skip(pos, num_extended_headers) == pos + (num_extended_headers * 3200)

\* a test that takes a count of zero for extended headers to remove
HasExtendedOrNone(num_extended_headers) == num_extended_headers >= 0

\* if(num_extended_headers > 0)
HasExtended(num_extended_headers) == num_extended_headers > 0

\* the while True loop copying 4096 bytes at a time
RECURSIVE CopyLoop(_, _, _)
CopyLoop(f, pos, written) ==
    LET data == ReadPiece(f, pos, 4096) IN
    IF data.n = 0 THEN written
    ELSE CopyLoop(f, pos + data.n, Append(written, data))

NoOutput == [exists |-> FALSE, data |-> <<>>]

NumberMessage == "Number of Extended Textual Headers"

NoChangeMessage ==
    "No extended header were identified, No changes were made. aborting..."

\* what one call raises, prints and leaves in the output file
RemoveExtendedHeaders(f) ==
    LET textual_header == ReadPiece(f, 0, 3200)
        binary_header  == ReadPiece(f, textual_header.n, 400)
        pos            == textual_header.n + binary_header.n
    IN  IF binary_header.n < 306
        THEN [raised |-> "struct.error", printed |-> <<>>, out |-> NoOutput]
        ELSE LET num_extended_headers == Unpack_h(">", f.count) IN
             IF HasExtended(num_extended_headers)
             THEN [raised  |-> "",
                   printed |-> <<NumberMessage>>,
                   out     |-> [exists |-> TRUE,
                                data   |-> CopyLoop(f, Skip(pos, num_extended_headers),
                                               <<textual_header>> \o Patch(<<binary_header>>))]]
             ELSE [raised  |-> "",
                   printed |-> <<NumberMessage, NoChangeMessage>>,
                   out     |-> NoOutput]

\* the count fields of the inputs: 0, 1, 2, 256 (a little-endian 1), -1
CountBytes == {<<0, 0>>, <<0, 1>>, <<0, 2>>, <<1, 0>>, <<255, 255>>}

TailSizes == {(k * 4096) + e : k \in 0..MaxChunks, e \in {0, 1, 240}}

SurgerySizes ==
    {3000, 3505, 3506, 3600, 4600}
        \cup {3600 + (n * 3200) + t : n \in 0..2, t \in TailSizes}

InitSurgery ==
    /\ DetIdle
    /\ LazyIdle
    /\ exth = Unused
    /\ layout = Unused
    /\ surg \in {[state |-> "file", input |-> [size |-> sz, count |-> c]] :
                    sz \in SurgerySizes, c \in CountBytes}
    /\ wr = Unused
    /\ rt = Unused
    /\ schema = Unused
    /\ comp = Unused
    /\ thr = Unused

\* one call of seismo_segy_remove_extended_headers(file_path): the input is
\* opened 'rb' and only read
RemoveExtended ==
    /\ surg.state = "file"
    /\ \E r \in {RemoveExtendedHeaders(surg.input)} :
          surg' = [state |-> "done", input |-> surg.input, raised |-> r.raised,
                   printed |-> r.printed, out |-> r.out]
    /\ UNCHANGED <<detVars, lazyVars, exth, layout, wr, rt, moreVars>>

NextSurgery == RemoveExtended

SpecSurgery == InitSurgery /\ [][NextSurgery]_vars

\* the byte at offset j of a bytes object: the offset of the input it was
\* taken from, or the value it was given
RECURSIVE ByteAt(_, _)
ByteAt(ps, j) ==
    IF j < Head(ps).n
    THEN IF Head(ps).from < 0
         THEN [at |-> 0 - 1, val |-> Head(ps).lit[j + 1]]
         ELSE [at |-> Head(ps).from + j, val |-> 0 - 1]
    ELSE ByteAt(Tail(ps), j - Head(ps).n)

\* the count of extended headers of the input, as the function reads it
DeclaredCount == Unpack_h(">", surg.input.count)

\* the value of a byte of the output that lies in the count field
CountByte(j) ==
    LET c == ByteAt(surg.out.data, j) IN
    IF c.at < 0 THEN c.val ELSE surg.input.count[c.at - 3503]

\* the output holds the headers with a count of 0 and, from 3600 on, what
\* the input holds from 3600 + N*3200 on
Removed(N) ==
    LET outsize == PiecesLen(surg.out.data) IN
    /\ surg.out.exists
    /\ outsize >= 3506
    /\ \A j \in {3504, 3505} : ByteAt(surg.out.data, j).at \in {0 - 1, j}
    /\ Unpack_h(">", <<CountByte(3504), CountByte(3505)>>) = 0
    /\ Unpack_h("<", <<CountByte(3504), CountByte(3505)>>) = 0
    /\ outsize = surg.input.size - (N * 3200)
    /\ \A j \in 3600..(outsize - 1) :
           ByteAt(surg.out.data, j) = [at |-> j + (N * 3200), val |-> 0 - 1]

SurgeryDone == surg.state = "done" /\ surg.raised = ""

MaxStream == 2

\* largest number possible with int16
MAX_NUMBER_OF_SAMPLES == 32767

\* MAX_INTERVAL_IN_SECONDS = 0.065535, in microseconds
MAX_INTERVAL_IN_MICROSECONDS == 65535

\* the dtype of the samples of each data encoding that has one
DATA_SAMPLE_FORMAT_CODE_DTYPE ==
    [code \in {1, 2, 3, 5, 8} |->
        CASE code = 1 -> "float32" [] code = 2 -> "int32" [] code = 3 -> "int16"
          [] code = 5 -> "float32" [] code = 8 -> "int8"]

\* for i, tr in enumerate(stream): if len(tr) > MAX_NUMBER_OF_SAMPLES
RECURSIVE FirstTooLong(_, _)
FirstTooLong(stream, i) ==
    IF i > Len(stream) THEN 0
    ELSE IF stream[i].npts > MAX_NUMBER_OF_SAMPLES THEN i
    ELSE FirstTooLong(stream, i + 1)

\* for trace in stream: the dtype check, then the sample interval check
RECURSIVE CheckTraces(_, _, _)
CheckTraces(stream, i, valid_dtype) ==
    IF i > Len(stream) THEN [raised |-> "", at |-> 0]
    ELSE IF stream[i].dtype # valid_dtype
         THEN [raised |-> "SEGYCoreWritingError", at |-> i]
    ELSE IF stream[i].delta > MAX_INTERVAL_IN_MICROSECONDS
         THEN [raised |-> "SEGYSampleIntervalError", at |-> i]
    ELSE CheckTraces(stream, i + 1, valid_dtype)

\* stream.stats of a stream that has none
NoStats ==
    [has_stats |-> FALSE, has_data_encoding |-> FALSE, data_encoding |-> 0,
     has_textual_file_header |-> FALSE, has_binary_file_header |-> FALSE,
     data_sample_format_code |-> 0, has_endian |-> FALSE, endian |-> ""]

\* the data encoding when the argument is None: two if statements in a
\* row, the else belonging to the second, so that what the first assigns
\* is always assigned again
DefaultEncoding(stats) ==
    LET first == IF stats.has_stats /\ stats.has_data_encoding
                 THEN stats.data_encoding ELSE 0
        second == IF stats.has_stats /\ stats.has_binary_file_header
                  THEN stats.data_sample_format_code ELSE 1
    IN  second

\* "Create empty file wide headers if they do not exist": the new binary
\* header has a data_sample_format_code of 0
CreateHeaders(stats) ==
    [stats EXCEPT !.has_stats = TRUE, !.has_textual_file_header = TRUE,
                  !.has_binary_file_header = TRUE]

\* _write_segy up to the end of its checks; at is the index of the trace
\* that failed one, data_encoding the local variable and stats the
\* stream's stats where the function stops or goes on
CheckSegy(c) ==
    IF FirstTooLong(c.stream, 1) # 0
    THEN [raised |-> "ValueError", at |-> FirstTooLong(c.stream, 1),
          data_encoding |-> c.data_encoding.code, stats |-> c.stats]
    ELSE IF c.data_encoding.given /\ c.data_encoding.code \notin VALID_FORMATS
    THEN [raised |-> "SEGYCoreWritingError", at |-> 0,
          data_encoding |-> c.data_encoding.code, stats |-> c.stats]
    ELSE LET data_encoding == IF c.data_encoding.given THEN c.data_encoding.code
                              ELSE DefaultEncoding(c.stats)
             stats == CreateHeaders(c.stats)
         IN  IF data_encoding \notin DOMAIN DATA_SAMPLE_FORMAT_CODE_DTYPE
             THEN [raised |-> "KeyError", at |-> 0,
                   data_encoding |-> data_encoding, stats |-> stats]
             ELSE LET r == CheckTraces(c.stream, 1,
                                       DATA_SAMPLE_FORMAT_CODE_DTYPE[data_encoding])
                  IN  [raised |-> r.raised, at |-> r.at,
                       data_encoding |-> data_encoding, stats |-> stats]

\* _write_su up to the end of its checks: it has no data encoding and
\* leaves stream.stats alone
CheckSu(c) ==
    LET r == CheckTraces(c.stream, 1, "float32")
    IN  [raised |-> r.raised, at |-> r.at, data_encoding |-> 0, stats |-> c.stats]

\* the checks of the function called
Check(c) == IF c.fn = "_write_segy" THEN CheckSegy(c) ELSE CheckSu(c)

\* from the checks to the write: _write_su takes the byte order from
\* stream[0] when byteorder is None
Build(c) ==
    IF c.fn = "_write_su" /\ c.stream = <<>> THEN "IndexError" ELSE ""

\* the names of the two byte orders
ENDIAN == [b \in {"big", "little", ">", "<"} |->
              IF b \in {"big", ">"} THEN ">" ELSE "<"]

\* the byte order as the two functions settle it: the argument, else the
\* one the stream records (no trace of the streams in play records one for
\* _write_su), else big endian; _write_segy maps it through ENDIAN
ByteOrder(c, stats) ==
    IF c.fn = "_write_segy"
    THEN ENDIAN[IF c.byteorder.given THEN c.byteorder.value
                ELSE IF stats.has_stats /\ stats.has_endian THEN stats.endian
                ELSE ">"]
    ELSE IF c.byteorder.given THEN c.byteorder.value ELSE ">"

\* a writer that leaves each trace in the byte order its stream was read in
NewTraceEndianOfStream(byteorder, stats) ==
    IF stats.has_endian THEN stats.endian ELSE ">"

\* new_trace.endian = byteorder
NewTraceEndian(byteorder, stats) == byteorder

NoObject == [data_sample_format_code |-> 0, traces |-> <<>>]

\* the SEGYFile / SUFile object: the binary header's format code and, for
\* each trace of the stream in order, the encoding and byte order it is
\* given (an SU file has no binary header and its traces no encoding)
FileObject(c, data_encoding, byteorder, stats) ==
    [data_sample_format_code |-> data_encoding,
     traces |-> [i \in 1..Len(c.stream) |->
                    [data_encoding |-> data_encoding,
                     endian |-> NewTraceEndian(byteorder, stats)]]]

NoArguments == [data_encoding |-> 0, endian |-> ""]

NothingWritten == [opened |-> FALSE, traces |-> 0]

\* a writer that puts each trace into the file as soon as it has checked it
WrittenAsChecked(pc, at, c) ==
    IF pc = "written" THEN [opened |-> TRUE, traces |-> Len(c.stream)]
    ELSE IF pc = "raised" /\ at > 1 THEN [opened |-> TRUE, traces |-> at - 1]
    ELSE NothingWritten

\* the output file with the call at pc: segy_file.write / su_file.write,
\* the last statement of both functions, is all that touches it
Written(pc, at, c) ==
    IF pc = "written" THEN [opened |-> TRUE, traces |-> Len(c.stream)]
    ELSE NothingWritten

TraceKinds ==
    {[npts |-> n, dtype |-> d, delta |-> dl] :
        n \in {100, MAX_NUMBER_OF_SAMPLES + 1}, d \in {"float32", "int16"},
        dl \in {4000, MAX_INTERVAL_IN_MICROSECONDS + 1}}

Streams == SeqsUpTo(TraceKinds, MaxStream)

Encodings ==
    {[given |-> FALSE, code |-> 0], [given |-> TRUE, code |-> 1],
     [given |-> TRUE, code |-> 3], [given |-> TRUE, code |-> 6]}

NoByteorder == [given |-> FALSE, value |-> ""]

Byteorders == {[given |-> TRUE, value |-> "<"], [given |-> TRUE, value |-> "big"]}

\* the stats of a new Stream, of one whose data_encoding alone was set, of
\* two streams read from a file (little endian with 2-byte integers, big
\* endian with format code 4, for which there is no dtype), and of one that
\* was given the two file headers by hand
StreamStats ==
    {NoStats,
     [NoStats EXCEPT !.has_stats = TRUE, !.has_data_encoding = TRUE,
                     !.data_encoding = 3],
     [has_stats |-> TRUE, has_data_encoding |-> TRUE, data_encoding |-> 3,
      has_textual_file_header |-> TRUE, has_binary_file_header |-> TRUE,
      data_sample_format_code |-> 3, has_endian |-> TRUE, endian |-> "<"],
     [has_stats |-> TRUE, has_data_encoding |-> TRUE, data_encoding |-> 4,
      has_textual_file_header |-> TRUE, has_binary_file_header |-> TRUE,
      data_sample_format_code |-> 4, has_endian |-> TRUE, endian |-> ">"],
     [NoStats EXCEPT !.has_stats = TRUE, !.has_textual_file_header = TRUE,
                     !.has_binary_file_header = TRUE,
                     !.data_sample_format_code = 3]}

WriteCalls ==
    {[fn |-> "_write_segy", stream |-> st, data_encoding |-> e, stats |-> ss,
      byteorder |-> NoByteorder] :
        st \in Streams, e \in Encodings, ss \in StreamStats}
      \cup
    {[fn |-> "_write_segy", stream |-> st, data_encoding |-> e, stats |-> ss,
      byteorder |-> b] :
        st \in Streams, e \in {[given |-> FALSE, code |-> 0]},
        ss \in StreamStats, b \in Byteorders}
      \cup
    {[fn |-> "_write_su", stream |-> st, data_encoding |-> [given |-> FALSE, code |-> 0],
      stats |-> NoStats, byteorder |-> NoByteorder] :
        st \in Streams}

InitWrite ==
    /\ DetIdle
    /\ LazyIdle
    /\ exth = Unused
    /\ layout = Unused
    /\ surg = Unused
    /\ wr \in {[state |-> "call", pc |-> "called", call |-> c, raised |-> "", at |-> 0,
                file |-> NothingWritten, stats |-> c.stats, data_encoding |-> 0,
                byteorder |-> "", object |-> NoObject, arguments |-> NoArguments] :
                    c \in WriteCalls}
    /\ rt = Unused
    /\ schema = Unused
    /\ comp = Unused
    /\ thr = Unused

\* the checks at the head of _write_segy / _write_su, with the data
\* encoding settled and the file headers created on the way
CheckStream ==
    /\ wr.state = "call"
    /\ wr.pc = "called"
    /\ \E r \in {Check(wr.call)} :
          \E pc \in {IF r.raised = "" THEN "checked" ELSE "raised"} :
              wr' = [wr EXCEPT !.pc = pc, !.raised = r.raised, !.at = r.at,
                               !.stats = r.stats, !.data_encoding = r.data_encoding,
                               !.file = Written(pc, r.at, wr.call)]
    /\ UNCHANGED <<detVars, lazyVars, exth, layout, surg, rt, moreVars>>

\* the byte order is settled and the SEGYFile / SUFile object is filled
\* with the headers and the traces
BuildFile ==
    /\ wr.state = "call"
    /\ wr.pc = "checked"
    /\ \E r \in {Build(wr.call)} :
          \E pc \in {IF r = "" THEN "built" ELSE "raised"} :
            \E byteorder \in {IF r = "" THEN ByteOrder(wr.call, wr.stats) ELSE ""} :
              wr' = [wr EXCEPT !.pc = pc, !.raised = r,
                               !.byteorder = byteorder,
                               !.object = IF r = ""
                                          THEN FileObject(wr.call, wr.data_encoding,
                                                          byteorder, wr.stats)
                                          ELSE NoObject,
                               !.file = Written(pc, 0, wr.call)]
    /\ UNCHANGED <<detVars, lazyVars, exth, layout, surg, rt, moreVars>>

\* segy_file.write(filename, data_encoding=data_encoding, endian=byteorder)
\* / su_file.write(filename, endian=byteorder)
WriteFile ==
    /\ wr.state = "call"
    /\ wr.pc = "built"
    /\ wr' = [wr EXCEPT !.pc = "written",
                        !.arguments = [data_encoding |-> wr.data_encoding,
                                       endian |-> wr.byteorder],
                        !.file = Written("written", 0, wr.call)]
    /\ UNCHANGED <<detVars, lazyVars, exth, layout, surg, rt, moreVars>>

NextWrite == CheckStream \/ BuildFile \/ WriteFile

SpecWrite == InitWrite /\ [][NextWrite]_vars

\* what the two functions raise on a stream they refuse
ValidationErrors == {"ValueError", "SEGYCoreWritingError", "SEGYSampleIntervalError"}

\* C20: in _write_segy and _write_su every validation failure (too many
\* samples, a data encoding outside VALID_FORMATS, a dtype that does not
\* match the encoding, a sample interval above 65535 microseconds) is
\* raised before the file write is invoked: once one is raised the output
\* file is untouched and stays so, whichever trace is the offending one,
\* and the file is touched only by the write that follows the checks.
C20_ValidationPrecedesOutput ==
    /\ [](wr.state = "call" /\ wr.raised \in ValidationErrors => wr.file = NothingWritten)
    /\ [][wr.state = "call" /\ wr'.file # wr.file
             => wr.pc = "built" /\ wr.raised = "" /\ wr'.raised = ""
                /\ Check(wr.call).raised = ""]_vars

\* the second trace of a stream has too long a sample interval: the error
\* is raised and nothing is written
C20_Witness ==
    /\ wr.state = "call"
    /\ wr.pc = "raised"
    /\ wr.raised = "SEGYSampleIntervalError"
    /\ wr.at = 2
    /\ Len(wr.call.stream) = 2
    /\ wr.file = NothingWritten

\* the encodings a stream records: stats.data_encoding and the format code
\* of stats.binary_file_header
Recorded(stats) ==
    {stats.data_encoding : x \in {0} \cap (IF stats.has_data_encoding THEN {0} ELSE {})}
      \cup
    {stats.data_sample_format_code :
        x \in {0} \cap (IF stats.has_binary_file_header THEN {0} ELSE {})}

\* _write_segy was called with data_encoding=None and has built its file
WroteWithDefault ==
    /\ wr.state = "call"
    /\ wr.call.fn = "_write_segy"
    /\ ~wr.call.data_encoding.given
    /\ wr.pc \in {"built", "written"}

\* C22: when _write_segy is called with data_encoding=None, an encoding the
\* stream records (stats.data_encoding or the format code of its binary
\* file header) is the one used, 1 is used only when the stream records
\* none, every trace gets the encoding so resolved and the binary header
\* of the file carries it.
C22_RecordedEncodingUsed ==
    WroteWithDefault =>
        /\ Recorded(wr.call.stats) # {} => wr.data_encoding \in Recorded(wr.call.stats)
        /\ Recorded(wr.call.stats) = {} => wr.data_encoding = 1
        /\ \A i \in DOMAIN wr.object.traces :
              wr.object.traces[i].data_encoding = wr.data_encoding
        /\ wr.object.data_sample_format_code = wr.data_encoding

\* the byte order a call to _write_segy asks for: the argument, else
\* stream.stats.endian, else big endian
AskedByteOrder(c) ==
    IF c.byteorder.given
    THEN (IF c.byteorder.value \in {"big", ">"} THEN ">" ELSE "<")
    ELSE IF c.stats.has_endian THEN c.stats.endian
    ELSE ">"

\* C25: every trace that _write_segy adds to the file object is given the
\* one byte order (the argument, else stream.stats.endian, else big endian)
\* and the one data encoding that are then passed to the file write.
C25_OneByteOrderPerFile ==
    wr.state = "call" /\ wr.call.fn = "_write_segy" /\ wr.pc \in {"built", "written"}
        => /\ wr.byteorder = AskedByteOrder(wr.call)
           /\ Len(wr.object.traces) = Len(wr.call.stream)
           /\ \A i \in DOMAIN wr.object.traces :
                 /\ wr.object.traces[i].endian = wr.byteorder
                 /\ wr.object.traces[i].data_encoding = wr.data_encoding
           /\ wr.pc = "written"
                 => wr.arguments = [data_encoding |-> wr.data_encoding,
                                    endian |-> wr.byteorder]

\* a stream of two traces read from a little endian file is written with
\* byteorder='big': both traces and the write are big endian
C25_Witness ==
    /\ wr.state = "call"
    /\ wr.call.fn = "_write_segy"
    /\ wr.pc = "written"
    /\ wr.call.byteorder = [given |-> TRUE, value |-> "big"]
    /\ wr.call.stats.has_endian
    /\ wr.call.stats.endian = "<"
    /\ Len(wr.object.traces) = 2
    /\ \A i \in 1..2 : wr.object.traces[i].endian = ">"
    /\ wr.arguments.endian = ">"

\* C30: whenever _write_segy raises a validation error, stream.stats has
\* the attributes it had before the call.
C30_FailedWriteLeavesStream ==
    wr.state = "call" /\ wr.call.fn = "_write_segy" /\ wr.raised \in ValidationErrors
        => wr.stats = wr.call.stats

(***************************************************************************)
(* A trace header read from a file and written back by _write_segy.  The   *)
(* rows below are those of the header table for the fields the writer sets *)
(* from trace.stats; stats.delta is kept in microseconds.                  *)
(***************************************************************************)
STATS_HEADER_FORMAT ==
    << [length |-> 2, name |-> "sample_interval_in_ms_for_this_trace",
        special_format |-> "H", start |-> 116],
       [length |-> 2, name |-> "year_data_recorded", special_format |-> "", start |-> 156],
       [length |-> 2, name |-> "day_of_year", special_format |-> "", start |-> 158],
       [length |-> 2, name |-> "hour_of_day", special_format |-> "", start |-> 160],
       [length |-> 2, name |-> "minute_of_hour", special_format |-> "", start |-> 162],
       [length |-> 2, name |-> "second_of_minute", special_format |-> "", start |-> 164] >>

\* the rows of the table the writer loops over
WrittenFormat == TRACE_HEADER_FORMAT \o STATS_HEADER_FORMAT

WrittenNames == {WrittenFormat[i].name : i \in DOMAIN WrittenFormat}

\* the header of a trace as read: every field unpacked from the buffer
ReadHeader(buf, endian) ==
    [n \in WrittenNames |->
        LET e == WrittenFormat[CHOOSE i \in DOMAIN WrittenFormat : WrittenFormat[i].name = n]
        IN  unpack_header_value(endian, Slice(buf, e.start, e.length),
                                e.length, e.special_format)]

\* UTCDateTime(0)
Epoch == [year |-> 1970, julday |-> 1, hour |-> 0, minute |-> 0, second |-> 0]

\* stats.delta and stats.starttime of a trace read from a file: the sample
\* interval if it is larger than 0, else the 1.0 s of an empty Stats; the
\* date if the year is not zero, years below 100 mapped to 1930-2029, else
\* UTCDateTime(0)
ReadStats(h) ==
    [delta     |-> IF h["sample_interval_in_ms_for_this_trace"] > 0
                   THEN h["sample_interval_in_ms_for_this_trace"] ELSE 1000000,
     starttime |-> IF h["year_data_recorded"] > 0
                   THEN [year   |-> IF h["year_data_recorded"] < 100
                                    THEN IF h["year_data_recorded"] < 30
                                         THEN h["year_data_recorded"] + 2000
                                         ELSE h["year_data_recorded"] + 1900
                                    ELSE h["year_data_recorded"],
                         julday |-> h["day_of_year"],
                         hour   |-> h["hour_of_day"],
                         minute |-> h["minute_of_hour"],
                         second |-> h["second_of_minute"]]
                   ELSE Epoch]

\* int(trace.stats.delta * 1E6) for a delta of us / 1E6, in doubles: of the
\* intervals in play 249 and 65535 come back one less (249 / 1E6 * 1E6 is
\* 248.99999999999997)
IntMicroseconds(us) == IF us \in {249, 65535} THEN us - 1 ELSE us

\* the fields of new_trace.header once the loop over the table and the
\* assignments after it are done
NewTraceHeader(this_trace_header, stats) ==
    LET copied == [n \in WrittenNames |-> this_trace_header[n]]
        dated  == IF stats.starttime = Epoch
                  THEN [copied EXCEPT !["year_data_recorded"] = 0,
                                      !["day_of_year"] = 0,
                                      !["hour_of_day"] = 0,
                                      !["minute_of_hour"] = 0,
                                      !["second_of_minute"] = 0]
                  ELSE [copied EXCEPT !["year_data_recorded"] = stats.starttime.year,
                                      !["day_of_year"] = stats.starttime.julday,
                                      !["hour_of_day"] = stats.starttime.hour,
                                      !["minute_of_hour"] = stats.starttime.minute,
                                      !["second_of_minute"] = stats.starttime.second]
    IN  [dated EXCEPT !["sample_interval_in_ms_for_this_trace"] =
                          IntMicroseconds(stats.delta)]

\* the length bytes of a number u >= 0, most significant first
RECURSIVE BytesOf(_, _)
BytesOf(u, length) ==
    IF length = 0 THEN <<>> ELSE Append(BytesOf(u \div 256, length - 1), u % 256)

\* can the value be packed into the field
Fits(v, length, special_format) ==
    IF special_format = "H" THEN 0 <= v /\ v <= 65535
    ELSE IF length = 2 THEN (0 - 32768) <= v /\ v <= 32767
    ELSE TRUE

\* the packed value of a field: the inverse of unpack_header_value
pack_header_value(endian, v, length, special_format) ==
    LET msb == IF v >= 0 THEN BytesOf(v, length)
               ELSE [i \in 1..length |-> 255 - BytesOf((0 - v) - 1, length)[i]]
    IN  IF endian = ">" THEN msb ELSE Reverse(msb)

\* the 240 bytes a header is written as, or the struct.error of a value
\* that does not fit its field
WriteHeader(header, endian) ==
    IF \E i \in DOMAIN WrittenFormat :
           ~Fits(header[WrittenFormat[i].name], WrittenFormat[i].length,
                 WrittenFormat[i].special_format)
    THEN [raised |-> "struct.error", buf |-> <<>>]
    ELSE [raised |-> "",
          buf |-> [k \in 1..240 |->
                     IF \E i \in DOMAIN WrittenFormat :
                            WrittenFormat[i].start < k
                            /\ k <= WrittenFormat[i].start + WrittenFormat[i].length
                     THEN LET e == WrittenFormat[CHOOSE i \in DOMAIN WrittenFormat :
                                       WrittenFormat[i].start < k
                                       /\ k <= WrittenFormat[i].start + WrittenFormat[i].length]
                          IN  pack_header_value(endian, header[e.name], e.length,
                                                e.special_format)[k - e.start]
                     ELSE 0]]

\* a 240 byte trace header with the given values packed into its fields
\* and zeros elsewhere
BufferOf(endian, seq, ns, si, year, day, hour) ==
    WriteHeader([trace_sequence_number_within_line    |-> seq,
                 number_of_samples_in_this_trace      |-> ns,
                 sample_interval_in_ms_for_this_trace |-> si,
                 year_data_recorded                   |-> year,
                 day_of_year                          |-> day,
                 hour_of_day                          |-> hour,
                 minute_of_hour                       |-> 0,
                 second_of_minute                     |-> 0], endian).buf

SampleIntervals == {0, 249, 250, 4000}

Years == {0, 24, 99, 1970, 2024}

\* the days of the headers with a year; a header without one may hold any
Days(year) == IF year = 0 THEN {0, 5} ELSE {1, 200}

RoundTripHeaders ==
    UNION {{[buf |-> BufferOf(endian, seq, 1000, si, year, day, hour), endian |-> endian] :
               endian \in {">", "<"}, seq \in {1, 0 - 2}, si \in SampleIntervals,
               day \in Days(year), hour \in {0, 13}} : year \in Years}

InitRoundTrip ==
    /\ DetIdle
    /\ LazyIdle
    /\ exth = Unused
    /\ layout = Unused
    /\ surg = Unused
    /\ wr = Unused
    /\ rt \in {[state |-> "file", buf |-> h.buf, endian |-> h.endian] : h \in RoundTripHeaders}
    /\ schema = Unused
    /\ comp = Unused
    /\ thr = Unused

\* the trace is read: its header unpacked, its stats set
ReadTrace ==
    /\ rt.state = "file"
    /\ \E h \in {ReadHeader(rt.buf, rt.endian)} :
          rt' = [state |-> "read", buf |-> rt.buf, endian |-> rt.endian,
                 trace_header |-> h, stats |-> ReadStats(h)]
    /\ UNCHANGED <<detVars, lazyVars, exth, layout, surg, wr, moreVars>>

\* the trace is written by _write_segy with the byte order it was read in
WriteTrace ==
    /\ rt.state = "read"
    /\ \E r \in {WriteHeader(NewTraceHeader(rt.trace_header, rt.stats), rt.endian)} :
          rt' = [state |-> "written", buf |-> rt.buf, endian |-> rt.endian,
                 trace_header |-> rt.trace_header, stats |-> rt.stats,
                 raised |-> r.raised, out |-> r.buf]
    /\ UNCHANGED <<detVars, lazyVars, exth, layout, surg, wr, moreVars>>

NextRoundTrip == ReadTrace \/ WriteTrace

SpecRoundTrip == InitRoundTrip /\ [][NextRoundTrip]_vars

\* C11: a header buffer decoded and encoded again in the same byte order,
\* with no field changed in between, comes out byte for byte as it was.
C11_RoundTrip ==
    rt.state = "written" => rt.raised = "" /\ rt.out = rt.buf

(***************************************************************************)
(* The header fields that seismo_read_trace_headers unpacks from the 240   *)
(* bytes of a trace header and seismo_segy_read_binary_header from the     *)
(* bytes read at offset 3200: one row for each struct.unpack statement, in *)
(* the order of the code, with its format and the slice it is given.       *)
(***************************************************************************)
\* trace_header[start:stop], lines 365-453
TraceFields ==
    << [name |-> "trace_seq_num_line", format |-> ">i", start |-> 0, stop |-> 4],
       [name |-> "trace_seq_num_file", format |-> ">i", start |-> 4, stop |-> 8],
       [name |-> "field_record_num", format |-> ">i", start |-> 8, stop |-> 12],
       [name |-> "trace_num_within_field", format |-> ">i", start |-> 12, stop |-> 16],
       [name |-> "energy_source_point_num", format |-> ">i", start |-> 16, stop |-> 20],
       [name |-> "ensemble_num", format |-> ">i", start |-> 20, stop |-> 24],
       [name |-> "trace_num_within_ensemble", format |-> ">i", start |-> 24, stop |-> 28],
       [name |-> "trace_id_code", format |-> ">h", start |-> 28, stop |-> 30],
       [name |-> "vert_sum_traces", format |-> ">h", start |-> 30, stop |-> 32],
       [name |-> "horiz_sum_traces", format |-> ">h", start |-> 32, stop |-> 34],
       [name |-> "data_use", format |-> ">h", start |-> 34, stop |-> 36],
       [name |-> "source_receiver_distance", format |-> ">i", start |-> 36, stop |-> 40],
       [name |-> "receiver_group_elevation", format |-> ">i", start |-> 40, stop |-> 44],
       [name |-> "surface_elevation_source", format |-> ">i", start |-> 44, stop |-> 48],
       [name |-> "source_depth_below_surface", format |-> ">i", start |-> 48, stop |-> 52],
       [name |-> "datum_elevation_receiver_group", format |-> ">i", start |-> 52, stop |-> 56],
       [name |-> "datum_elevation_source", format |-> ">i", start |-> 56, stop |-> 60],
       [name |-> "water_depth_source", format |-> ">i", start |-> 60, stop |-> 64],
       [name |-> "water_depth_group", format |-> ">i", start |-> 64, stop |-> 68],
       [name |-> "scalar_elevations", format |-> ">h", start |-> 68, stop |-> 70],
       [name |-> "scalar_coordinates", format |-> ">h", start |-> 70, stop |-> 72],
       [name |-> "source_coordinate_x", format |-> ">i", start |-> 72, stop |-> 76],
       [name |-> "source_coordinate_y", format |-> ">i", start |-> 76, stop |-> 80],
       [name |-> "group_coordinate_x", format |-> ">i", start |-> 80, stop |-> 84],
       [name |-> "group_coordinate_y", format |-> ">i", start |-> 84, stop |-> 88],
       [name |-> "coordinate_units", format |-> ">h", start |-> 88, stop |-> 90],
       [name |-> "weathering_velocity", format |-> ">h", start |-> 90, stop |-> 92],
       [name |-> "subweathering_velocity", format |-> ">h", start |-> 92, stop |-> 94],
       [name |-> "uphole_time_source_ms", format |-> ">h", start |-> 94, stop |-> 96],
       [name |-> "uphole_time_group_ms", format |-> ">h", start |-> 96, stop |-> 98],
       [name |-> "source_static_corr_ms", format |-> ">h", start |-> 98, stop |-> 100],
       [name |-> "group_static_corr_ms", format |-> ">h", start |-> 100, stop |-> 102],
       [name |-> "total_static_ms", format |-> ">h", start |-> 102, stop |-> 104],
       [name |-> "lag_time_A_ms", format |-> ">h", start |-> 104, stop |-> 106],
       [name |-> "lag_time_B_ms", format |-> ">h", start |-> 106, stop |-> 108],
       [name |-> "delay_recording_time_ms", format |-> ">h", start |-> 108, stop |-> 110],
       [name |-> "mute_time_start_ms", format |-> ">h", start |-> 110, stop |-> 112],
       [name |-> "mute_time_end_ms", format |-> ">h", start |-> 112, stop |-> 114],
       [name |-> "num_samples", format |-> ">h", start |-> 114, stop |-> 116],
       [name |-> "sample_interval", format |-> ">h", start |-> 116, stop |-> 118],
       [name |-> "gain_type", format |-> ">h", start |-> 118, stop |-> 120],
       [name |-> "instrument_gain_const", format |-> ">h", start |-> 120, stop |-> 122],
       [name |-> "instrument_early_gain", format |-> ">h", start |-> 122, stop |-> 124],
       [name |-> "correlated", format |-> ">h", start |-> 124, stop |-> 126],
       [name |-> "sweep_freq_start", format |-> ">h", start |-> 126, stop |-> 128],
       [name |-> "sweep_freq_end", format |-> ">h", start |-> 128, stop |-> 130],
       [name |-> "sweep_length", format |-> ">h", start |-> 130, stop |-> 132],
       [name |-> "sweep_type", format |-> ">h", start |-> 132, stop |-> 134],
       [name |-> "sweep_taper_length_start", format |-> ">h", start |-> 134, stop |-> 136],
       [name |-> "sweep_taper_length_end", format |-> ">h", start |-> 136, stop |-> 138],
       [name |-> "taper_type", format |-> ">h", start |-> 138, stop |-> 140],
       [name |-> "alias_filter_freq", format |-> ">h", start |-> 140, stop |-> 142],
       [name |-> "alias_filter_slope", format |-> ">h", start |-> 142, stop |-> 144],
       [name |-> "notch_filter_freq", format |-> ">h", start |-> 144, stop |-> 146],
       [name |-> "notch_filter_slope", format |-> ">h", start |-> 146, stop |-> 148],
       [name |-> "low_cut_freq", format |-> ">h", start |-> 148, stop |-> 150],
       [name |-> "high_cut_freq", format |-> ">h", start |-> 150, stop |-> 152],
       [name |-> "low_cut_slope", format |-> ">h", start |-> 152, stop |-> 154],
       [name |-> "high_cut_slope", format |-> ">h", start |-> 154, stop |-> 156],
       [name |-> "year_recorded", format |-> ">h", start |-> 156, stop |-> 158],
       [name |-> "day_of_year", format |-> ">h", start |-> 158, stop |-> 160],
       [name |-> "hour_of_day", format |-> ">h", start |-> 160, stop |-> 162],
       [name |-> "minute_of_hour", format |-> ">h", start |-> 162, stop |-> 164],
       [name |-> "second_of_minute", format |-> ">h", start |-> 164, stop |-> 166],
       [name |-> "time_basis_code", format |-> ">h", start |-> 166, stop |-> 168],
       [name |-> "trace_weighting_factor", format |-> ">h", start |-> 168, stop |-> 170],
       [name |-> "geophone_roll_pos_num", format |-> ">h", start |-> 170, stop |-> 172],
       [name |-> "geophone_trace_one_num", format |-> ">h", start |-> 172, stop |-> 174],
       [name |-> "geophone_last_trace_num", format |-> ">h", start |-> 174, stop |-> 176],
       [name |-> "gap_size", format |-> ">h", start |-> 176, stop |-> 178],
       [name |-> "over_travel_taper", format |-> ">h", start |-> 178, stop |-> 180],
       [name |-> "x_coord_ensemble", format |-> ">i", start |-> 180, stop |-> 184],
       [name |-> "y_coord_ensemble", format |-> ">i", start |-> 184, stop |-> 188],
       [name |-> "inline_number", format |-> ">i", start |-> 188, stop |-> 192],
       [name |-> "crossline_number", format |-> ">i", start |-> 192, stop |-> 196],
       [name |-> "shotpoint_number", format |-> ">i", start |-> 196, stop |-> 200],
       [name |-> "scalar_shotpoint_number", format |-> ">h", start |-> 200, stop |-> 202],
       [name |-> "trace_value_unit", format |-> ">h", start |-> 202, stop |-> 204],
       [name |-> "transduction_constant_mantissa", format |-> ">i", start |-> 204, stop |-> 208],
       [name |-> "transduction_constant_exponent", format |-> ">h", start |-> 208, stop |-> 210],
       [name |-> "transduction_units", format |-> ">h", start |-> 210, stop |-> 212],
       [name |-> "device_trace_identifier", format |-> ">h", start |-> 212, stop |-> 214],
       [name |-> "scalar_time_value", format |-> ">h", start |-> 214, stop |-> 216],
       [name |-> "source_type_orientation", format |-> ">h", start |-> 216, stop |-> 218],
       [name |-> "source_energy_direction_mantissa", format |-> ">i", start |-> 218, stop |-> 222],
       [name |-> "source_energy_direction_exponent", format |-> ">h", start |-> 222, stop |-> 224],
       [name |-> "source_measurement_mantissa", format |-> ">i", start |-> 224, stop |-> 228],
       [name |-> "source_measurement_exponent", format |-> ">h", start |-> 228, stop |-> 230],
       [name |-> "source_measurement_unit", format |-> ">h", start |-> 230, stop |-> 232] >>

\* binary_header[start:stop], lines 708-768
BinaryFields ==
    << [name |-> "job_id", format |-> ">i", start |-> 0, stop |-> 4],
       [name |-> "line_number", format |-> ">i", start |-> 4, stop |-> 8],
       [name |-> "reel_number", format |-> ">i", start |-> 8, stop |-> 12],
       [name |-> "traces_per_ensemble", format |-> ">h", start |-> 12, stop |-> 14],
       [name |-> "auxiliary_trace_per_ensemble", format |-> ">h", start |-> 14, stop |-> 16],
       [name |-> "dt", format |-> ">h", start |-> 16, stop |-> 18],
       [name |-> "dtOrig", format |-> ">h", start |-> 18, stop |-> 20],
       [name |-> "ns", format |-> ">h", start |-> 20, stop |-> 22],
       [name |-> "nsOrig", format |-> ">h", start |-> 22, stop |-> 24],
       [name |-> "data_sample_format", format |-> ">h", start |-> 24, stop |-> 26],
       [name |-> "ensemble_fold", format |-> ">h", start |-> 26, stop |-> 28],
       [name |-> "trace_sorting", format |-> ">h", start |-> 28, stop |-> 30],
       [name |-> "vertical_sum_code", format |-> ">h", start |-> 30, stop |-> 32],
       [name |-> "sweep_freq_start", format |-> ">h", start |-> 32, stop |-> 34],
       [name |-> "sweep_freq_end", format |-> ">h", start |-> 34, stop |-> 36],
       [name |-> "sweep_length", format |-> ">h", start |-> 36, stop |-> 38],
       [name |-> "sweep_type", format |-> ">h", start |-> 38, stop |-> 40],
       [name |-> "trace_sweep_channel", format |-> ">h", start |-> 40, stop |-> 42],
       [name |-> "sweep_taper_start", format |-> ">h", start |-> 42, stop |-> 44],
       [name |-> "sweep_taper_end", format |-> ">h", start |-> 44, stop |-> 46],
       [name |-> "taper_type", format |-> ">h", start |-> 46, stop |-> 48],
       [name |-> "correlated_traces", format |-> ">h", start |-> 48, stop |-> 50],
       [name |-> "binary_gain", format |-> ">h", start |-> 50, stop |-> 52],
       [name |-> "amplitude_recovery", format |-> ">h", start |-> 52, stop |-> 54],
       [name |-> "measurement_system", format |-> ">h", start |-> 54, stop |-> 56],
       [name |-> "signal_polarity", format |-> ">h", start |-> 56, stop |-> 58],
       [name |-> "vibratory_polarity", format |-> ">h", start |-> 58, stop |-> 60],
       [name |-> "seg_y_revision", format |-> ">H", start |-> 300, stop |-> 302],
       [name |-> "fixed_length_trace_flag", format |-> ">h", start |-> 302, stop |-> 304],
       [name |-> "num_extended_headers", format |-> ">h", start |-> 304, stop |-> 306],
       [name |-> "unassigned", format |-> ">47h", start |-> 306, stop |-> 400] >>

\* a size table that takes every format for a 4 byte one
CalcSizeAllFour(format) == 4

\* struct.calcsize: the bytes a format consumes
CalcSize(format) ==
    CASE format = ">i" -> 4
      [] format = ">h" -> 2
      [] format = ">H" -> 2
      [] format = ">47h" -> 94

Fields(table) == IF table = "trace" THEN TraceFields ELSE BinaryFields

\* the size of the header of each kind
HeaderSize(table) == IF table = "trace" THEN 240 ELSE 400

\* the statement at pc: the slice of a buffer of len bytes, unpacked; a
\* slice that is not as long as the format asks for raises struct.error
UnpackField(table, len, pc) ==
    LET row   == Fields(table)[pc]
        slice == IF Min(row.stop, len) > row.start THEN Min(row.stop, len) - row.start ELSE 0
    IN  IF slice # CalcSize(row.format)
        THEN [raised |-> "struct.error", pc |-> pc]
        ELSE [raised |-> "", pc |-> pc + 1]

\* the lengths of the buffers: a trace header is unpacked only when all its
\* 240 bytes were read; the binary header is what file.read(400) gives
SchemaBuffers ==
    {[table |-> "trace", len |-> 240]}
        \cup {[table |-> "binary", len |-> n] : n \in {400, 306, 60, 17}}

InitSchema ==
    /\ DetIdle
    /\ LazyIdle
    /\ exth = Unused
    /\ layout = Unused
    /\ surg = Unused
    /\ wr = Unused
    /\ rt = Unused
    /\ schema \in {[state |-> "run", table |-> b.table, len |-> b.len, pc |-> 1,
                    raised |-> ""] : b \in SchemaBuffers}
    /\ comp = Unused
    /\ thr = Unused

\* the next struct.unpack statement of the function
UnpackNext ==
    /\ schema.state = "run"
    /\ schema.raised = ""
    /\ schema.pc <= Len(Fields(schema.table))
    /\ \E r \in {UnpackField(schema.table, schema.len, schema.pc)} :
          schema' = [schema EXCEPT !.pc = r.pc, !.raised = r.raised]
    /\ UNCHANGED <<detVars, lazyVars, exth, layout, surg, wr, rt, comp, thr>>

NextSchema == UnpackNext

SpecSchema == InitSchema /\ [][NextSchema]_vars

\* the bytes of the header that the field of a row takes
FieldBytes(row) == row.start .. (row.start + CalcSize(row.format) - 1)

WellFormed(table) ==
    LET rows == Fields(table) IN
    /\ \A i \in DOMAIN rows :
          /\ rows[i].stop - rows[i].start = CalcSize(rows[i].format)
          /\ rows[i].start >= 0
          /\ rows[i].start + CalcSize(rows[i].format) <= HeaderSize(table)
          /\ rows[i].name # "unassigned" => CalcSize(rows[i].format) \in {2, 4}
    /\ \A i, j \in DOMAIN rows :
          i # j => FieldBytes(rows[i]) \cap FieldBytes(rows[j]) = {}

\* C21: in the trace header table (240 bytes) and in the binary file header
\* table (400 bytes) every field ends within the header, every named field
\* is 2 or 4 bytes long (the one row that is longer is the unassigned rest
\* of the binary header), and no two fields share a byte; so a header read
\* in full is unpacked to its last field and no unpack raises.
C21_SchemaWellFormed ==
    schema.state = "run" =>
        /\ WellFormed(schema.table)
        /\ schema.len = HeaderSize(schema.table) => schema.raised = ""

\* the 89 fields of a trace header and the 31 of a binary header unpacked
C21_Witness ==
    /\ schema.state = "run"
    /\ schema.table = "trace"
    /\ schema.raised = ""
    /\ schema.pc = Len(TraceFields) + 1
    /\ TraceFields[schema.pc - 1].name = "source_measurement_unit"
    /\ TraceFields[schema.pc - 1].stop = 232

(***************************************************************************)
(* seismo_read_segy_: the traces of the file become a stream and the       *)
(* stream is split by the source_measurement_unit of each trace header.    *)
(* A trace is named by its place in the file.                              *)
(***************************************************************************)

MaxSplit == 3

\* a split that takes every trace that is neither north nor east as vertical
ComponentOrVertical(smu) ==
    IF smu = 512 THEN "N" ELSE IF smu = 768 THEN "E" ELSE "Z"

\* the if / elif / elif of the loop: the stream a trace is appended to
Component(smu) ==
    IF smu = 512 THEN "N"
    ELSE IF smu = 768 THEN "E"
    ELSE IF smu = 1024 THEN "Z"
    ELSE "none"

Units == {512, 768, 1024, 0}

SplitFiles == SeqsUpTo(Units, MaxSplit)

InitSplit ==
    /\ DetIdle
    /\ LazyIdle
    /\ exth = Unused
    /\ layout = Unused
    /\ surg = Unused
    /\ wr = Unused
    /\ rt = Unused
    /\ schema = Unused
    /\ comp \in {[state |-> "read", pc |-> "opened", traces |-> f, stream |-> <<>>,
                  at |-> 0, N |-> <<>>, E |-> <<>>, Z |-> <<>>, raised |-> ""] :
                     f \in SplitFiles}
    /\ thr = Unused

\* the file headers go to stream.stats (segy_object.traces[0] gives the
\* encoding and the byte order) and every trace is appended to the stream
ConvertTraces ==
    /\ comp.state = "read"
    /\ comp.pc = "opened"
    /\ comp' = IF comp.traces = <<>>
               THEN [comp EXCEPT !.pc = "raised", !.raised = "IndexError"]
               ELSE [comp EXCEPT !.pc = "split", !.at = 1,
                       !.stream = [i \in 1..Len(comp.traces) |->
                                     [trace |-> i,
                                      source_measurement_unit |-> comp.traces[i]]]]
    /\ UNCHANGED <<detVars, lazyVars, exth, layout, surg, wr, rt, schema, thr>>

\* one turn of "for trace in stream"
AssignTrace ==
    /\ comp.state = "read"
    /\ comp.pc = "split"
    /\ comp.at <= Len(comp.stream)
    /\ \E trace \in {comp.stream[comp.at]} :
         \E to \in {Component(trace.source_measurement_unit)} :
            comp' = [comp EXCEPT
                       !.at = comp.at + 1,
                       !.N = IF to = "N" THEN Append(comp.N, trace) ELSE comp.N,
                       !.E = IF to = "E" THEN Append(comp.E, trace) ELSE comp.E,
                       !.Z = IF to = "Z" THEN Append(comp.Z, trace) ELSE comp.Z]
    /\ UNCHANGED <<detVars, lazyVars, exth, layout, surg, wr, rt, schema, thr>>

\* return [N_stream, E_stream, Z_stream]
ReturnStreams ==
    /\ comp.state = "read"
    /\ comp.pc = "split"
    /\ comp.at > Len(comp.stream)
    /\ comp' = [comp EXCEPT !.pc = "returned"]
    /\ UNCHANGED <<detVars, lazyVars, exth, layout, surg, wr, rt, schema, thr>>

NextSplit == ConvertTraces \/ AssignTrace \/ ReturnStreams

SpecSplit == InitSplit /\ [][NextSplit]_vars

\* the places in the file of the traces of a stream
Places(stream) == [i \in 1..Len(stream) |-> stream[i].trace]

\* the places of the traces of the file whose unit is smu, in file order
RECURSIVE WithUnit(_, _, _)
WithUnit(traces, smu, i) ==
    IF i > Len(traces) THEN <<>>
    ELSE IF traces[i] = smu THEN <<i>> \o WithUnit(traces, smu, i + 1)
    ELSE WithUnit(traces, smu, i + 1)

Range(seq) == {seq[i] : i \in DOMAIN seq}

\* C23: the three streams seismo_read_segy_ returns are such that N holds
\* exactly the traces whose source_measurement_unit is 512, E those with 768
\* and Z those with 1024, each in file order; no trace is in two of them and
\* a trace with another unit is in none.
C23_ComponentSplit ==
    comp.state = "read" /\ comp.pc = "returned"
        => /\ Places(comp.N) = WithUnit(comp.traces, 512, 1)
           /\ Places(comp.E) = WithUnit(comp.traces, 768, 1)
           /\ Places(comp.Z) = WithUnit(comp.traces, 1024, 1)
           /\ \A t \in Range(comp.N \o comp.E \o comp.Z) :
                 t.source_measurement_unit = comp.traces[t.trace]
           /\ Range(Places(comp.N)) \cap Range(Places(comp.E)) = {}
           /\ Range(Places(comp.N)) \cap Range(Places(comp.Z)) = {}
           /\ Range(Places(comp.E)) \cap Range(Places(comp.Z)) = {}
           /\ \A i \in DOMAIN comp.traces :
                 comp.traces[i] \notin {512, 768, 1024}
                    => i \notin Range(Places(comp.N \o comp.E \o comp.Z))

\* a file of a vertical, a north and a trace of another unit: the first is
\* returned in Z, the second in N, the third nowhere
C23_Witness ==
    /\ comp.state = "read"
    /\ comp.pc = "returned"
    /\ comp.traces = <<1024, 512, 0>>
    /\ Places(comp.N) = <<2>>
    /\ comp.E = <<>>
    /\ Places(comp.Z) = <<1>>

(***************************************************************************)
(* Two lazy headers, each constructed over a buffer of its own with the    *)
(* data parameter left at its default: the one dict made when the class    *)
(* was defined, object 3 of the heap.                                      *)
(***************************************************************************)

TwoHandles == {"first", "second"}

TwoBuffers == [first  |-> HeaderBuffer(<<1, 2, 3, 4>>, <<255, 254>>),
               second |-> HeaderBuffer(<<255, 255, 255, 254>>, <<0, 1>>)]

TwoEndians == [first |-> ">", second |-> "<"]

Fresh == [first |-> 1, second |-> 2]

\* the dict that is the default of the parameter data
DefaultData == 3

\* the names tried on the two headers
TwoNames == {"number_of_samples_in_this_trace", "comment", "unpacked_header"}

\* a constructor that takes data itself for the __dict__ of the new header
ConstructInData(heap, fresh, unpacked_header, unpacked_header_endian, data) ==
    [ref |-> data,
     heap |-> [heap EXCEPT ![data] = With(With(@, "unpacked_header", unpacked_header),
                                          "endian", unpacked_header_endian)]]

\* LazyTraceHeaderAttribDict(unpacked_header, unpacked_header_endian):
\* dict.__init__(data) leaves data as it is and update copies its items
\* into the new object
Construct(heap, fresh, unpacked_header, unpacked_header_endian, data) ==
    [ref |-> fresh,
     heap |-> [heap EXCEPT ![fresh] = LazyInit(unpacked_header, unpacked_header_endian,
                                               heap[data])]]

InitTwo ==
    /\ file = [openable |-> FALSE, len |-> 0, fld |-> PlainFields(<<0, 0>>, <<0, 0>>)]
    /\ det = Idle
    /\ objs = [i \in 1..3 |-> Empty]
    /\ view = [first |-> 0, second |-> 0]
    /\ hist = [i \in 1..3 |-> NoHist]
    /\ last = [op |-> "init", h |-> "first", name |-> "", ret |-> None]
    /\ eager = EagerHeader(TwoBuffers["first"], TwoEndians["first"])
    /\ Parked

\* h = LazyTraceHeaderAttribDict(buffer, endian)
NewHeader(h) ==
    /\ view[h] = 0
    /\ \E r \in {Construct(objs, Fresh[h], TwoBuffers[h], TwoEndians[h], DefaultData)} :
          /\ objs' = r.heap
          /\ view' = [view EXCEPT ![h] = r.ref]
    /\ last' = [op |-> "new", h |-> h, name |-> "", ret |-> None]
    /\ UNCHANGED <<detVars, hist, eager, restVars>>

NextTwo ==
    \/ \E h \in TwoHandles : NewHeader(h)
    \/ \E h \in TwoHandles, name \in TwoNames : Get(h, name)
    \/ \E h \in TwoHandles, name \in TwoNames, v \in SetVals : Set(h, name, v)

SpecTwo == InitTwo /\ [][NextTwo]_vars

OtherOfTwo(h) == IF h = "first" THEN "second" ELSE "first"

\* the other header is there and a step on h leaves it as it was: the same
\* object with the same buffer, byte order and cache, showing the same
\* value for every name
C24_Untouched(h) ==
    view[OtherOfTwo(h)] # 0 =>
        /\ view'[OtherOfTwo(h)] = view[OtherOfTwo(h)]
        /\ view'[OtherOfTwo(h)] # view'[h]
        /\ objs'[view'[OtherOfTwo(h)]] = objs[view[OtherOfTwo(h)]]
        /\ \A n \in Names :
              Lookup(objs'[view'[OtherOfTwo(h)]], n) = Lookup(objs[view[OtherOfTwo(h)]], n)

C24_Step ==
    /\ last'.op \in {"new", "get", "set"} => C24_Untouched(last'.h)
    /\ objs'[DefaultData] = objs[DefaultData]

\* C24: for two lazy headers built over distinct buffers, no get or set on
\* one of them, in any interleaving, and no construction of one of them
\* changes the buffer, the byte order, the cache or a returned field value
\* of the other; the dict that is the default of the constructor's data
\* parameter is never written, and each header keeps the buffer and the
\* byte order it was built with.
C24_Isolation ==
    /\ [][C24_Step]_vars
    /\ [](\A h \in TwoHandles :
            view[h] # 0 => /\ objs[view[h]]["unpacked_header"] = TwoBuffers[h]
                           /\ objs[view[h]]["endian"] = TwoEndians[h])

\* both headers have decoded the number of samples from their own buffer,
\* the first was then set to 2: the second still shows its own value
C24_Witness ==
    /\ view["first"] # 0 /\ view["second"] # 0
    /\ last.op = "set" /\ last.h = "first"
    /\ last.name = "number_of_samples_in_this_trace"
    /\ Lookup(objs[view["first"]], last.name) = Value(2)
    /\ hist[view["second"]].reads[last.name] = 1
    /\ Lookup(objs[view["second"]], last.name) = Value(256)

(***************************************************************************)
(* The buffer and the byte order of one lazy header under get and set.     *)
(***************************************************************************)

C27_Step ==
    /\ objs'[1]["unpacked_header"] = objs[1]["unpacked_header"]
    /\ objs'[1]["endian"] = objs[1]["endian"]
    /\ (last'.op = "set" /\ last'.name \in readonly)
          => (last'.ret = AttributeError /\ objs' = objs)

\* C27: after any sequence of gets, sets and failed lookups on a lazy
\* header its buffer (unpacked_header) and its byte order (endian) are the
\* ones given at construction: no step changes them, they still give the
\* field values the construction arguments give, and a set of one of the
\* two names raises and changes nothing.
C27_BufferAndEndianKept ==
    /\ [][C27_Step]_vars
    /\ [](/\ objs[1]["unpacked_header"] \in FewBuffers
          /\ objs[1]["endian"] \in {">", "<"}
          /\ eager = EagerHeader(objs[1]["unpacked_header"], objs[1]["endian"]))

\* a field was read and set, a lookup failed, and the byte order was then
\* set: the set is refused
C27_Witness ==
    /\ last.op = "set" /\ last.name = "endian"
    /\ last.ret = AttributeError
    /\ hist[1].reads["number_of_samples_in_this_trace"] > 0
    /\ "number_of_samples_in_this_trace" \in DOMAIN hist[1].set
    /\ objs[1]["endian"] \in {">", "<"}

(***************************************************************************)
(* A stream written by _write_segy and the file then given to _is_segy.    *)
(* trace.stats.delta is kept in nanoseconds, so that an interval below one *)
(* microsecond can be told from zero; the stream is float32 and carries a  *)
(* binary file header holding its sample interval in whole microseconds.   *)
(***************************************************************************)

\* int(trace.stats.delta * 1E6) for a delta of ns / 1E9, in doubles: the
\* whole microseconds, one less for three of the intervals in play
\* (0.000249 * 1E6 is 248.99999999999997)
TruncatedMicroseconds(ns) ==
    IF ns \in {249000, 32767000, 65535000} THEN ns \div 1000 - 1 ELSE ns \div 1000

IntervalsNs == {500, 999, 1000, 2000, 249000, 250000, 1000000, 4000000,
                32767000, 32768000, 40000000, 65535000, 65536000}

\* the file the write makes, as far as the detector reads it: the binary
\* header is the stream's with the format code set, each field two bytes
\* in the byte order of the write
WrittenFile(c) ==
    [openable |-> TRUE, len |-> FullLen + 94,
     fld |-> [number_of_data_traces      |-> <<0, 0>>,
              number_of_auxiliary_traces |-> <<0, 0>>,
              sample_interval            |-> pack_header_value(c.byteorder, c.header_interval,
                                                               2, "H"),
              samples_per_trace          |-> pack_header_value(c.byteorder, c.npts, 2, "H"),
              data_format_code           |-> pack_header_value(c.byteorder, 1, 2, "H"),
              format_number              |-> <<0, 0>>,
              fixed_length               |-> <<0, 0>>,
              extended_number            |-> <<0, 0>>]]

IntervalCalls ==
    {[delta |-> ns, header_interval |-> ns \div 1000, npts |-> n, byteorder |-> b] :
        ns \in IntervalsNs, n \in {1, 100, MAX_NUMBER_OF_SAMPLES}, b \in {">", "<"}}

InitInterval ==
    /\ DetIdle
    /\ LazyIdle
    /\ exth = Unused
    /\ layout = Unused
    /\ surg = Unused
    /\ wr \in {[state |-> "interval", pc |-> "called", call |-> c, raised |-> "",
                sample_interval_in_ms_for_this_trace |-> 0] : c \in IntervalCalls}
    /\ rt = Unused
    /\ schema = Unused
    /\ comp = Unused
    /\ thr = Unused

\* _write_segy on a stream of one trace: the sample interval check, the
\* interval of the new trace header, and the write
WriteInterval ==
    /\ wr.state = "interval"
    /\ wr.pc = "called"
    /\ IF wr.call.delta > MAX_INTERVAL_IN_MICROSECONDS * 1000
       THEN /\ wr' = [wr EXCEPT !.pc = "raised", !.raised = "SEGYSampleIntervalError"]
            /\ file' = file
       ELSE /\ wr' = [wr EXCEPT !.pc = "written",
                        !.sample_interval_in_ms_for_this_trace =
                            TruncatedMicroseconds(wr.call.delta)]
            /\ file' = WrittenFile(wr.call)
    /\ UNCHANGED <<det, lazyVars, exth, layout, surg, rt, moreVars>>

\* _is_segy(filename) on the file written
DetectWritten ==
    /\ wr.state = "interval"
    /\ wr.pc = "written"
    /\ IsSegy

NextInterval == WriteInterval \/ DetectWritten

SpecInterval == InitInterval /\ [][NextInterval]_vars

\* the intervals the writer documents: 1 to 65535 microseconds in steps of 1
Documented(ns) == ns % 1000 = 0 /\ ns \div 1000 \in 1..MAX_INTERVAL_IN_MICROSECONDS

\* C26: every sample interval from 1 to 65535 microseconds, which the
\* writer accepts, is accepted by the detector's sample interval check when
\* the written file is detected, and the writer never gives an accepted
\* trace a sample interval field of 0.
C26_WriterDetectorAgree ==
    wr.state = "interval" =>
        /\ Documented(wr.call.delta) => wr.pc # "raised"
        /\ (Documented(wr.call.delta) /\ det.state = "done") => det.ret = "True"
        /\ wr.pc = "written" => wr.sample_interval_in_ms_for_this_trace # 0

(***************************************************************************)
(* One file given both to _is_segy and to                                  *)
(* seismo_segy_remove_extended_headers: a whole file in either byte order, *)
(* holding as many extended headers as its count field says in the byte    *)
(* order of the file.                                                      *)
(***************************************************************************)

AgreeCounts == {0, 1, 2}

AgreeFiles ==
    {[openable |-> TRUE,
      len |-> 3600 + (n * 3200) + t,
      fld |-> [PlainFields(pack_header_value(e, code, 2, ""), <<0, 0>>)
                 EXCEPT !["extended_number"] = pack_header_value(e, n, 2, "")]] :
        e \in {">", "<"}, n \in AgreeCounts, code \in {1, 5}, t \in TailSizes}

InitAgree ==
    /\ file \in AgreeFiles
    /\ det = Idle
    /\ LazyIdle
    /\ exth = Unused
    /\ layout = Unused
    /\ surg = [state |-> "file",
               input |-> [size |-> file.len, count |-> file.fld["extended_number"]]]
    /\ wr = Unused
    /\ rt = Unused
    /\ schema = Unused
    /\ comp = Unused
    /\ thr = Unused

NextAgree == IsSegy \/ RemoveExtended

SpecAgree == InitAgree /\ [][NextAgree]_vars

\* the count of extended headers in the byte order the detector selected
DetectedCount == Unpack_h(det.endian, file.fld["extended_number"])

\* C28: for every file the detector accepts, in either byte order, the
\* surgery removes as many extended headers as the count field holds in
\* the detected byte order: none, with no output, when that count is 0,
\* and count * 3200 bytes after the headers otherwise.
C28_CountsAgree ==
    (det.state = "done" /\ det.ret = "True" /\ SurgeryDone)
        => IF DetectedCount > 0 THEN Removed(DetectedCount)
           ELSE ~surg.out.exists

(***************************************************************************)
(* One lazy header used by two threads with no lock.  A get that misses    *)
(* the cache is two steps, the check with the decode and then the store;   *)
(* a get that hits, a failed lookup and a set are one step each.           *)
(***************************************************************************)

Threads == {1, 2}

ThreadIdle == [at |-> "idle", name |-> "", attribute |-> 0]

InitThreads ==
    /\ DetIdle
    /\ LazyIdle
    /\ exth = Unused
    /\ layout = Unused
    /\ surg = Unused
    /\ wr = Unused
    /\ rt = Unused
    /\ schema = Unused
    /\ comp = Unused
    /\ thr \in {[state |-> "threads",
                 dict |-> LazyInit(buf, endian, Empty),
                 pc |-> [t \in Threads |-> ThreadIdle],
                 written |-> Empty,
                 raced |-> {},
                 last |-> [op |-> "init", t |-> 0, name |-> "", ret |-> None]] :
                    buf \in FewBuffers, endian \in {">", "<"}}

\* thread t enters header[name]: a name that is there, or one that is not
\* in the table, is answered at once; otherwise the value is unpacked and
\* the thread holds it, not yet stored
GetCheck(t, name) ==
    /\ thr.state = "threads"
    /\ thr.pc[t].at = "idle"
    /\ \E r \in {GetItem(thr.dict, name)} :
          thr' = IF r.read
                 THEN [thr EXCEPT !.pc[t] = [at |-> "decoded", name |-> name,
                                             attribute |-> r.ret.val]]
                 ELSE [thr EXCEPT !.last = [op |-> "get", t |-> t, name |-> name,
                                            ret |-> r.ret]]
    /\ UNCHANGED <<detVars, lazyVars, exth, layout, surg, wr, rt, schema, comp>>

\* setattr(self, name, attribute); return attribute
GetStore(t) ==
    /\ thr.state = "threads"
    /\ thr.pc[t].at = "decoded"
    /\ thr' = [thr EXCEPT
                 !.dict = SetItem(thr.dict, thr.pc[t].name, thr.pc[t].attribute).dict,
                 !.pc[t] = ThreadIdle,
                 !.last = [op |-> "get", t |-> t, name |-> thr.pc[t].name,
                           ret |-> Value(thr.pc[t].attribute)]]
    /\ UNCHANGED <<detVars, lazyVars, exth, layout, surg, wr, rt, schema, comp>>

\* thread t runs header[name] = v; raced tells whether a get of the name
\* by another thread was between its check and its store at that moment
SetField(t, name, v) ==
    /\ thr.state = "threads"
    /\ thr.pc[t].at = "idle"
    /\ thr' = [thr EXCEPT
                 !.dict = SetItem(thr.dict, name, v).dict,
                 !.written = With(thr.written, name, v),
                 !.raced = IF \E u \in Threads :
                                  thr.pc[u].at = "decoded" /\ thr.pc[u].name = name
                           THEN thr.raced \cup {name}
                           ELSE thr.raced \ {name},
                 !.last = [op |-> "set", t |-> t, name |-> name, ret |-> None]]
    /\ UNCHANGED <<detVars, lazyVars, exth, layout, surg, wr, rt, schema, comp>>

NextThreads ==
    \/ \E t \in Threads, name \in SchemaNames \cup {"comment"} : GetCheck(t, name)
    \/ \E t \in Threads : GetStore(t)
    \/ \E t \in Threads, name \in SchemaNames, v \in SetVals : SetField(t, name, v)

SpecThreads == InitThreads /\ [][NextThreads]_vars

\* the last completed set of f is what the cache holds and what the get
\* that has just returned gave
Kept(f) ==
    /\ f \in DOMAIN thr.dict
    /\ thr.dict[f] = thr.written[f]
    /\ (thr.last.op = "get" /\ thr.last.name = f)
          => thr.last.ret = Value(thr.written[f])

\* C29 as stated: once a set(f, v) has completed, every get(f) that returns
\* afterwards returns v and the cache holds v for f, also when a get(f) of
\* another thread had started its decode before the set and stores after it.
C29_NoLostUpdate ==
    thr.state = "threads" => \A f \in DOMAIN thr.written : Kept(f)

\* C29 amended: once a set(f, v) has completed, every get(f) that returns
\* afterwards returns v and the cache holds v for f, provided that no get(f)
\* of another thread was between its cache check and its store when the set
\* was performed.
C29_NoLostUpdateUnlessRaced ==
    thr.state = "threads" =>
        \A f \in DOMAIN thr.written : f \notin thr.raced => Kept(f)

\* thread 1 holds the decoded value of another field, not yet stored, and
\* thread 2 gets the number of samples after a set of it: it is given the
\* value set
C29_Witness ==
    /\ thr.state = "threads"
    /\ thr.pc[1].at = "decoded"
    /\ thr.pc[1].name = "trace_sequence_number_within_line"
    /\ thr.last = [op |-> "get", t |-> 2, name |-> "number_of_samples_in_this_trace",
                   ret |-> Value(2)]
    /\ "number_of_samples_in_this_trace" \in DOMAIN thr.written
    /\ thr.written["number_of_samples_in_this_trace"] = 2
    /\ thr.raced = {}

====
